---- MODULE Spec2Model ----
(***************************************************************************)
(* A model of orca's execution engine: the Graph (core/graph.py), the      *)
(* RunState (core/state.py), the SQLite persistence backend                *)
(* (persistence/sqlite.py), the node variants (nodes/*.py) and             *)
(* GraphRunner.run (core/runner.py).                                       *)
(*                                                                         *)
(* run() is a coroutine that only suspends at "await node.run(...)", so    *)
(* one invocation is two kinds of atomic step: Begin (entry of run() up to *)
(* the first call of a node, or up to its return/raise) and NodeReturn     *)
(* (a node's call completing, up to the next call of a node or the         *)
(* return/raise of run()).                                                 *)
(*                                                                         *)
(* Specifications:                                                         *)
(*   Spec       a caller invoking run(), fresh and resumed                 *)
(*   CapSpec    one invocation run to the iteration cap on a cycle         *)
(*   GraphSpec  a client building and querying a Graph                     *)
(*   LargeSpec  the same on a graph at the size limit of validate()        *)
(*   EmitSpec   one invocation with handlers and a backend that may raise  *)
(*   TwinSpec   the same run with and then without a persistence backend   *)
(*   ResumeSpec one invocation on a backend holding a checkpointed run     *)
(*   PolicySpec one invocation on nodes that carry an ErrorPolicy          *)
(*   ConcSpec   two invocations interleaved at their node calls            *)
(*   OwnSpec    invocations on a backend that starts empty                 *)
(*   BareSpec   one invocation of a runner without a backend, resume id given *)
(*   CapDbSpec  a run to the iteration cap on a backend, and its resume    *)
(*   RetrySpec  as OwnSpec, the arguments of the latest call recorded     *)
(*   RaceSpec   two resumes of one waiting run, interleaved               *)
(*   FaultSpec  a run and a resume on a backend whose methods start to raise *)
(***************************************************************************)
EXTENDS Integers, Sequences, FiniteSets, TLC

VARIABLES
    graph,           \* the Graph handed to run()
    hasPersistence,  \* GraphRunner.persistence is not None
    db,              \* the persistence backend: runs, checkpoints, events
    heard,           \* the calls of the registered event handlers, in order
    trace,           \* the backend and handler calls of the latest step
    handlers,        \* hooks._EVENT_HANDLERS: what each handler does, and
                     \* how many events had been emitted when it registered
    addEventRaises,  \* the backend's add_event raises
    bgraph,          \* the Graph a client is building
    bresult,         \* the client's latest call on bgraph and its outcome
    inv,             \* per invocation slot: the locals of run()
    invCount,        \* number of run() invocations begun
    uuidCount,       \* number of run ids generated by uuid4()
    args             \* per invocation slot, where a specification records
                     \* them: the arguments of its run() call, the backend
                     \* at that call and what each awaited node.run did

vars ==
    <<graph, hasPersistence, db, heard, trace, handlers, addEventRaises,
      bgraph, bresult, inv, invCount, uuidCount, args>>

----------------------------------------------------------------------------
(* Bounds of the model *)

MaxInvocations == 2   \* run() invocations per behaviour
MaxSteps == 3         \* node completions per invocation explored
ValMod == 3           \* payloads are 0..ValMod-1

(* Program constants *)

IterationCap == 10000
MaxGraphNodes == 1000

None == "None"

----------------------------------------------------------------------------
(* Values: pydantic model instances, plain dicts, and None.                *)

Types == {"InModel", "MidModel", "OutModel"}

\* the required fields of the models used by the tests
Fields(T) ==
    CASE T = "InModel"  -> {"text"}
      [] T = "MidModel" -> {"text", "length"}
      [] T = "OutModel" -> {"summary"}
      [] OTHER          -> {}

NoneVal == [kind |-> "none", type |-> None, fields |-> {}, val |-> 0]
Inst(T, v) == [kind |-> "model", type |-> T, fields |-> Fields(T), val |-> v]
Dict(F, v) == [kind |-> "dict", type |-> None, fields |-> F, val |-> v]

\* BaseModel.model_dump(): the structural value of an instance
ModelDump(m) == Dict(m.fields, m.val)

\* TypeAdapter(model_type).validate_python(value): an instance of the very
\* class passes unchanged; a dict passes if it has the required fields,
\* extra keys are ignored; anything else is a pydantic ValidationError.
ValidateToModel(T, value) ==
    IF value.kind = "model" /\ value.type = T
    THEN [ok |-> TRUE, value |-> value]
    ELSE IF value.kind = "dict" /\ Fields(T) \subseteq value.fields
    THEN [ok |-> TRUE, value |-> Inst(T, value.val)]
    ELSE [ok |-> FALSE, value |-> value]

----------------------------------------------------------------------------
(* Errors *)

\* type: the exception class; node, at: where it was raised
NoError == [type |-> "none", node |-> None, at |-> None]
Error(t, n, at) == [type |-> t, node |-> n, at |-> at]

----------------------------------------------------------------------------
(* Graph (core/graph.py) *)

Node(k, i, o) == [kind |-> k, input_model |-> i, output_model |-> o]
Edge(s, d) == [src |-> s, dst |-> d]

\* Successors that lists the newest edge first
SuccessorsNewestFirst(g, n) ==
    LET es == SelectSeq(g.edges, LAMBDA e : e.src = n)
    IN  [k \in 1..Len(es) |-> es[Len(es) + 1 - k].dst]

Successors(g, n) ==
    LET es == SelectSeq(g.edges, LAMBDA e : e.src = n)
    IN  [k \in 1..Len(es) |-> es[k].dst]

\* Predecessors that lists the edges' dst
PredecessorsDst(g, n) ==
    LET es == SelectSeq(g.edges, LAMBDA e : e.dst = n)
    IN  [k \in 1..Len(es) |-> es[k].dst]

Predecessors(g, n) ==
    LET es == SelectSeq(g.edges, LAMBDA e : e.dst = n)
    IN  [k \in 1..Len(es) |-> es[k].src]

\* Graph.validate(): "ok" or the ValidationError it raises.  The first test
\* is "not self.entrypoint": None and the empty string both fail it.
GraphValidate(g) ==
    IF g.entrypoint \in {None, ""} THEN "no_entrypoint"
    ELSE IF g.entrypoint \notin DOMAIN g.nodes THEN "unknown_entrypoint"
    ELSE IF \E k \in 1..Len(g.edges) :
                g.nodes[g.edges[k].src].output_model
                    # g.nodes[g.edges[k].dst].input_model
    THEN "type_mismatch"
    ELSE IF Cardinality(DOMAIN g.nodes) > MaxGraphNodes THEN "too_large"
    ELSE "ok"

\* Graph(): no node, no edge, no entrypoint
EmptyGraph == [nodes |-> <<>>, edges |-> <<>>, entrypoint |-> None]

\* GraphAddNode that replaces a node already registered under the name
GraphAddNodeOverwrite(g, name, node) ==
    [graph |-> [g EXCEPT !.nodes =
                   [n \in DOMAIN g.nodes \cup {name} |->
                       IF n = name THEN node ELSE g.nodes[n]]],
     outcome |-> "ok"]

\* Graph.add_node(node), node.name = name: the graph after the call and "ok"
\* or the error raised
GraphAddNode(g, name, node) ==
    IF name \in DOMAIN g.nodes
    THEN [graph |-> g, outcome |-> "ValidationError: Duplicate node name"]
    ELSE [graph |-> [g EXCEPT !.nodes =
                        [n \in DOMAIN g.nodes \cup {name} |->
                            IF n = name THEN node ELSE g.nodes[n]]],
          outcome |-> "ok"]

\* GraphConnect that only looks at src
GraphConnectSrcOnly(g, src, dst) ==
    IF src \notin DOMAIN g.nodes
    THEN [graph |-> g, outcome |-> "ValidationError: Unknown nodes in edge"]
    ELSE [graph |-> [g EXCEPT !.edges = Append(@, [src |-> src, dst |-> dst])],
          outcome |-> "ok"]

\* Graph.connect(src, dst)
GraphConnect(g, src, dst) ==
    IF src \notin DOMAIN g.nodes \/ dst \notin DOMAIN g.nodes
    THEN [graph |-> g, outcome |-> "ValidationError: Unknown nodes in edge"]
    ELSE [graph |-> [g EXCEPT !.edges = Append(@, [src |-> src, dst |-> dst])],
          outcome |-> "ok"]

\* GraphSetEntry that clears the entrypoint when it refuses the name
GraphSetEntryClears(g, name) ==
    IF name \notin DOMAIN g.nodes
    THEN [graph |-> [g EXCEPT !.entrypoint = None],
          outcome |-> "ValidationError: Unknown entrypoint node"]
    ELSE [graph |-> [g EXCEPT !.entrypoint = name], outcome |-> "ok"]

\* Graph.set_entry(name)
GraphSetEntry(g, name) ==
    IF name \notin DOMAIN g.nodes
    THEN [graph |-> g, outcome |-> "ValidationError: Unknown entrypoint node"]
    ELSE [graph |-> [g EXCEPT !.entrypoint = name], outcome |-> "ok"]

\* no call has been made on bgraph yet
NoCall == [op |-> "none", a |-> None, b |-> None, outcome |-> None, value |-> <<>>]

----------------------------------------------------------------------------
(* Events (core/events.py).  The timestamp is not modelled.                *)

Event(t, rid, n) == [type |-> t, run_id |-> rid, node |-> n, data |-> NoError]
EventWithData(t, rid, n, d) == [type |-> t, run_id |-> rid, node |-> n, data |-> d]

----------------------------------------------------------------------------
(* RunState (core/state.py) and its JSON form *)

EmptyMap == <<>>
Put(m, k, v) == (k :> v) @@ m

DefaultMetadata ==
    [schema_version |-> "1.0", seed |-> None, total_tokens |-> 0, total_cost |-> 0]

\* RunState(run_id=rid)
NewRunState(rid) ==
    [run_id |-> rid, context |-> EmptyMap, artifacts |-> EmptyMap,
     events |-> <<>>, node_outputs |-> EmptyMap, metadata |-> DefaultMetadata]

PendingKey(n) == "pending_input:" \o n

\* a value of an Any-typed field as JSON: a model instance is written as the
\* object of its fields, a dict as itself, None as null
JsonValue(v) == IF v.kind = "model" THEN ModelDump(v) ELSE v

JsonMap(m) == [k \in DOMAIN m |-> JsonValue(m[k])]

\* RunState.model_dump_json()
ModelDumpJson(s) ==
    [run_id |-> s.run_id, context |-> JsonMap(s.context),
     artifacts |-> JsonMap(s.artifacts), events |-> s.events,
     node_outputs |-> JsonMap(s.node_outputs), metadata |-> s.metadata]

\* RunState.model_validate_json(): the Any-typed fields come back as the
\* parsed JSON
ModelValidateJson(j) ==
    [run_id |-> j.run_id, context |-> j.context, artifacts |-> j.artifacts,
     events |-> j.events, node_outputs |-> j.node_outputs,
     metadata |-> j.metadata]

----------------------------------------------------------------------------
(* SQLitePersistence (persistence/sqlite.py): the runs table as a map from *)
(* run id to status, the checkpoints and events tables as sequences in id  *)
(* order.                                                                  *)

\* raises: the method of the backend that raises when called, or None
EmptyDb ==
    [runs |-> EmptyMap, checkpoints |-> <<>>, events |-> <<>>, raises |-> None]

\* INSERT INTO runs: the primary key refuses a second row for run_id
CreateRunFails(d, rid) == rid \in DOMAIN d.runs

CreateRun(d, rid) == [d EXCEPT !.runs = Put(@, rid, "running")]

\* UPDATE runs SET status = ? WHERE run_id = ?: no row, no change
UpdateRunStatus(d, rid, status) ==
    IF rid \in DOMAIN d.runs
    THEN [d EXCEPT !.runs = [@ EXCEPT ![rid] = status]]
    ELSE d

\* SaveCheckpoint that puts the new row before the others
SaveCheckpointFront(d, rid, node, state_json) ==
    [d EXCEPT !.checkpoints =
        <<[run_id |-> rid, node |-> node, state_json |-> state_json]>> \o @]

SaveCheckpoint(d, rid, node, state_json) ==
    [d EXCEPT !.checkpoints =
        Append(@, [run_id |-> rid, node |-> node, state_json |-> state_json])]

CheckpointsOf(d, rid) == SelectSeq(d.checkpoints, LAMBDA c : c.run_id = rid)

NoCheckpoint ==
    [found |-> FALSE, node |-> None, state_json |-> ModelDumpJson(NewRunState(None))]

\* LoadLatestCheckpoint without the WHERE run_id = ?
LoadLatestCheckpointAnyRun(d, rid) ==
    LET cs == d.checkpoints
    IN  IF Len(cs) = 0 THEN NoCheckpoint
        ELSE [found |-> TRUE, node |-> cs[Len(cs)].node,
              state_json |-> cs[Len(cs)].state_json]

\* LoadLatestCheckpoint with ORDER BY id ASC
LoadLatestCheckpointOldest(d, rid) ==
    LET cs == CheckpointsOf(d, rid)
    IN  IF Len(cs) = 0 THEN NoCheckpoint
        ELSE [found |-> TRUE, node |-> cs[1].node,
              state_json |-> cs[1].state_json]

\* SELECT ... WHERE run_id = ? ORDER BY id DESC LIMIT 1
LoadLatestCheckpoint(d, rid) ==
    LET cs == CheckpointsOf(d, rid)
    IN  IF Len(cs) = 0 THEN NoCheckpoint
        ELSE [found |-> TRUE, node |-> cs[Len(cs)].node,
              state_json |-> cs[Len(cs)].state_json]

AddEvent(d, e) == [d EXCEPT !.events = Append(@, e)]

GetEvents(d, rid) == SelectSeq(d.events, LAMBDA e : e.run_id = rid)

StatusOf(d, rid) == IF rid \in DOMAIN d.runs THEN d.runs[rid] ELSE None

----------------------------------------------------------------------------
(* The graphs run() is given *)

\* tests/core/test_runner.py: length -> summary
LinearGraph ==
    [nodes |-> ("length" :> Node("python_function", "InModel", "MidModel"))
            @@ ("summary" :> Node("python_function", "MidModel", "OutModel")),
     edges |-> <<Edge("length", "summary")>>,
     entrypoint |-> "length"]

\* tests/core/test_runner.py: length -> approve (HumanGateNode) -> finish
GateGraph ==
    [nodes |-> ("length" :> Node("python_function", "InModel", "MidModel"))
            @@ ("approve" :> Node("human_gate", "MidModel", "MidModel"))
            @@ ("finish" :> Node("python_function", "MidModel", "OutModel")),
     edges |-> <<Edge("length", "approve"), Edge("approve", "finish")>>,
     entrypoint |-> "length"]

\* plain Node subclasses; a has two successors, b first
BranchGraph ==
    [nodes |-> ("a" :> Node("node", "InModel", "InModel"))
            @@ ("b" :> Node("node", "InModel", "MidModel"))
            @@ ("c" :> Node("node", "InModel", "OutModel")),
     edges |-> <<Edge("a", "b"), Edge("a", "c")>>,
     entrypoint |-> "a"]

\* a cycle of type-compatible edges: validate() accepts it
CycleGraph ==
    [nodes |-> ("a" :> Node("node", "InModel", "InModel"))
            @@ ("b" :> Node("node", "InModel", "InModel")),
     edges |-> <<Edge("a", "b"), Edge("b", "a")>>,
     entrypoint |-> "a"]

\* x narrows MidModel to InModel
NarrowGraph ==
    [nodes |-> ("x" :> Node("node", "MidModel", "InModel"))
            @@ ("y" :> Node("node", "InModel", "OutModel")),
     edges |-> <<Edge("x", "y")>>,
     entrypoint |-> "x"]

\* an edge whose types differ: validate() refuses it
MismatchGraph ==
    [nodes |-> ("a" :> Node("node", "InModel", "MidModel"))
            @@ ("b" :> Node("node", "OutModel", "OutModel")),
     edges |-> <<Edge("a", "b")>>,
     entrypoint |-> "a"]

Graphs ==
    {LinearGraph, GateGraph, BranchGraph, CycleGraph, NarrowGraph, MismatchGraph}

\* the values a caller passes as initial_input
Inputs ==
    {Inst("InModel", 0), Dict({"text", "length"}, 0), NoneVal}

\* run ids a caller passes as run_id; uuid4() draws from UuidPool
CallerRunIds == {"r1"}
UuidPool == <<"u1", "u2", "u3", "u4", "u5">>

----------------------------------------------------------------------------
(* The locals of one invocation of GraphRunner.run.  The fields from       *)
(* resumed on are history, for the properties below: whether the resume    *)
(* path was taken, the checkpoint it loaded, the caller's initial_input    *)
(* and the input chosen before the loop (both on resume), the persisted    *)
(* status when the loop condition was last tested, the number of           *)
(* checkpoints in the backend at entry, the events handed to _emit and     *)
(* the calls of node.run with their input, outcome and validated output,   *)
(* and the number of calls of node.run that have completed.                *)

NoResult == [kind |-> "none", status |-> None, output |-> NoneVal, error |-> NoError]

IdleLocals ==
    [pc |-> "idle", rid |-> None, state |-> NewRunState(None), cur |-> None,
     input |-> NoneVal, last_output |-> NoneVal, steps |-> 0,
     result |-> NoResult,
     resumed |-> FALSE, initial_input |-> NoneVal,
     loaded |-> NoCheckpoint, entry_input |-> NoneVal,
     status_at_step |-> None, checkpoints_at_entry |-> 0,
     emitted |-> <<>>, calls |-> <<>>, executed |-> 0]

\* one call the runner makes on the backend or on an event handler
Call(op, a, b) == [op |-> op, a |-> a, b |-> b]

\* self.persistence.create_run(rid, ...)
DoCreateRun(w, rid) ==
    [w EXCEPT !.db = CreateRun(@, rid),
              !.trace = Append(@, Call("create_run", rid, None))]

\* self.persistence.update_run_status(rid, status)
DoUpdateRunStatus(w, rid, status) ==
    [w EXCEPT !.db = UpdateRunStatus(@, rid, status),
              !.trace = Append(@, Call("update_run_status", rid, status))]

\* the call of the backend's method op raises; add_event has its own switch
BackendRaises(w, op) == hasPersistence /\ w.db.raises = op
BackendError(op) == Error("OperationalError", None, op)

\* self.persistence.save_checkpoint(rid, node, state_json)
DoSaveCheckpoint(w, rid, node, state_json) ==
    [w EXCEPT !.db = SaveCheckpoint(@, rid, node, state_json),
              !.trace = Append(@, Call("save_checkpoint", rid, node))]

\* a handler given to hooks.on_event: it records the event, or it raises
Handler(does, since) == [does |-> does, since |-> since]

\* the calls of the registered handlers, in registration order; a handler
\* that raises has been called all the same
HandlerCalls(e) == [i \in 1..Len(handlers) |-> [handler |-> i, event |-> e]]

\* Emit in which a handler that raises ends the delivery of the event
EmitStopsAtRaise(w, e) ==
    LET w1 == IF hasPersistence
              THEN [w EXCEPT !.db = IF addEventRaises THEN @ ELSE AddEvent(@, e),
                             !.trace = Append(@, Call("add_event", e.type, e.node))]
              ELSE w
        R == {i \in 1..Len(handlers) : handlers[i].does = "raises"}
        n == IF R = {} THEN Len(handlers)
             ELSE CHOOSE i \in R : \A j \in R : i <= j
    IN  [w1 EXCEPT !.heard = @ \o SubSeq(HandlerCalls(e), 1, n),
                   !.trace = @ \o [i \in 1..n |-> Call("handler", i, e.type)],
                   !.l.emitted = Append(@, e)]

\* GraphRunner._emit: persistence first, then the handlers; whatever
\* add_event or a handler raises is swallowed
Emit(w, e) ==
    LET w1 == IF hasPersistence
              THEN [w EXCEPT !.db = IF addEventRaises THEN @ ELSE AddEvent(@, e),
                             !.trace = Append(@, Call("add_event", e.type, e.node))]
              ELSE w
    IN  [w1 EXCEPT !.heard = @ \o HandlerCalls(e),
                   !.trace = @ \o [i \in 1..Len(handlers) |->
                                      Call("handler", i, e.type)],
                   !.l.emitted = Append(@, e)]

Return(w, status, output) ==
    [w EXCEPT !.l.pc = "done",
              !.l.result = [kind |-> "returned", status |-> status,
                            output |-> output, error |-> NoError]]

Raise(w, err) ==
    [w EXCEPT !.l.pc = "done",
              !.l.result = [kind |-> "raised", status |-> None,
                            output |-> NoneVal, error |-> err]]

\* FinishRun without the final update_run_status
FinishRunNoStatus(w) ==
    Return(Emit(w, Event("run_finished", w.l.rid, None)),
           "finished", w.l.last_output)

\* FinishRun that sets the status before it emits run_finished
FinishRunStatusFirst(w) ==
    LET w1 == IF hasPersistence
              THEN DoUpdateRunStatus(w, w.l.rid, "finished")
              ELSE w
        w2 == Emit(w1, Event("run_finished", w.l.rid, None))
    IN  Return(w2, "finished", w.l.last_output)

\* loop exit: run_finished, status "finished", RunResult
FinishRun(w) ==
    LET w1 == Emit(w, Event("run_finished", w.l.rid, None))
        w2 == IF hasPersistence
              THEN DoUpdateRunStatus(w1, w.l.rid, "finished")
              ELSE w1
    IN  IF BackendRaises(w1, "update_run_status")
        THEN Raise(w1, BackendError("update_run_status"))
        ELSE Return(w2, "finished", w.l.last_output)

\* EnterStep that emits node_started before it validates the input
EnterStepStartFirst(w) ==
    LET w0 == [w EXCEPT !.l.status_at_step = StatusOf(w.db, w.l.rid)]
    IN  IF w.l.cur = None THEN FinishRun(w0)
        ELSE
        LET w1 == Emit([w0 EXCEPT !.l.steps = @ + 1],
                       Event("node_started", w.l.rid, w.l.cur))
            v == ValidateToModel(graph.nodes[w.l.cur].input_model, w.l.input)
        IN  IF ~v.ok
            THEN Raise(w1, Error("PydanticValidationError", w.l.cur, "input"))
            ELSE [w1 EXCEPT !.l.input = v.value,
                            !.l.pc = "in_node",
                            !.l.calls = Append(@, [node |-> w.l.cur,
                                                   input |-> v.value,
                                                   outcome |-> "running",
                                                   output |-> NoneVal])]

\* EnterStep that refuses the step whose number equals the cap
EnterStepCapInclusive(w) ==
    LET w0 == [w EXCEPT !.l.status_at_step = StatusOf(w.db, w.l.rid)]
    IN  IF w.l.cur = None THEN FinishRun(w0)
        ELSE
        LET w1 == [w0 EXCEPT !.l.steps = @ + 1]
        IN  IF w1.l.steps >= IterationCap
            THEN Raise(w1, Error("RuntimeError", None, "iteration_cap"))
            ELSE
            LET node == graph.nodes[w.l.cur]
                v == ValidateToModel(node.input_model, w.l.input)
            IN  IF ~v.ok
                THEN Raise(w1, Error("PydanticValidationError", w.l.cur, "input"))
                ELSE
                LET w2 == [w1 EXCEPT !.l.input = v.value]
                    w3 == Emit(w2, Event("node_started", w.l.rid, w.l.cur))
                IN  [w3 EXCEPT !.l.pc = "in_node",
                               !.l.calls = Append(@, [node |-> w.l.cur,
                                                      input |-> v.value,
                                                      outcome |-> "running",
                                                      output |-> NoneVal])]

\* EnterStep that records the cap as a failure of the run
EnterStepCapMarksFailed(w) ==
    LET w0 == [w EXCEPT !.l.status_at_step = StatusOf(w.db, w.l.rid)]
    IN  IF w.l.cur = None THEN FinishRun(w0)
        ELSE
        LET w1 == [w0 EXCEPT !.l.steps = @ + 1]
        IN  IF w1.l.steps > IterationCap
            THEN Raise(IF hasPersistence
                       THEN DoUpdateRunStatus(w1, w.l.rid, "failed")
                       ELSE w1,
                       Error("RuntimeError", None, "iteration_cap"))
            ELSE
            LET node == graph.nodes[w.l.cur]
                v == ValidateToModel(node.input_model, w.l.input)
            IN  IF ~v.ok
                THEN Raise(w1, Error("PydanticValidationError", w.l.cur, "input"))
                ELSE
                LET w2 == [w1 EXCEPT !.l.input = v.value]
                    w3 == Emit(w2, Event("node_started", w.l.rid, w.l.cur))
                IN  [w3 EXCEPT !.l.pc = "in_node",
                               !.l.calls = Append(@, [node |-> w.l.cur,
                                                      input |-> v.value,
                                                      outcome |-> "running",
                                                      output |-> NoneVal])]

\* the head of the step loop, up to the call of node.run
EnterStep(w) ==
    LET w0 == [w EXCEPT !.l.status_at_step = StatusOf(w.db, w.l.rid)]
    IN  IF w.l.cur = None THEN FinishRun(w0)
        ELSE
        LET w1 == [w0 EXCEPT !.l.steps = @ + 1]
        IN  IF w1.l.steps > IterationCap
            THEN Raise(w1, Error("RuntimeError", None, "iteration_cap"))
            ELSE
            LET node == graph.nodes[w.l.cur]
                v == ValidateToModel(node.input_model, w.l.input)
            IN  IF ~v.ok
                THEN Raise(w1, Error("PydanticValidationError", w.l.cur, "input"))
                ELSE
                LET w2 == [w1 EXCEPT !.l.input = v.value]
                    w3 == Emit(w2, Event("node_started", w.l.rid, w.l.cur))
                IN  [w3 EXCEPT !.l.pc = "in_node",
                               !.l.calls = Append(@, [node |-> w.l.cur,
                                                      input |-> v.value,
                                                      outcome |-> "running",
                                                      output |-> NoneVal])]

----------------------------------------------------------------------------
(* The node variants.  A node's own logic is a choice among: return an     *)
(* instance of the output model, return a dict with its fields, return     *)
(* something else, raise HumanInputRequired, raise another error.          *)

Behaviours == {"ok", "ok_dict", "bad", "pause", "error"}

NextVal(v) == (v + 1) % ValMod

Returned(value, state) ==
    [kind |-> "return", value |-> value, error |-> NoError, state |-> state]
Raised(err, state) ==
    [kind |-> IF err.type = "HumanInputRequired" THEN "pause" ELSE "raise",
     value |-> NoneVal, error |-> err, state |-> state]

\* what the user's logic does for behaviour b
UserLogic(name, node, input, state, b) ==
    CASE b = "ok"      -> Returned(Inst(node.output_model, NextVal(input.val)), state)
      [] b = "ok_dict" -> Returned(Dict(Fields(node.output_model), NextVal(input.val)), state)
      [] b = "bad"     -> Returned(Dict({"not"}, 0), state)
      [] b = "pause"   -> Raised(Error("HumanInputRequired", name, "node"), state)
      [] OTHER         -> Raised(Error("ValueError", name, "node"), state)

\* PythonFunctionNode.run: the function's result goes through the node's own
\* output adapter, whose ValidationError is raised from inside the node
PythonFunctionNodeRun(name, node, input, state, b) ==
    LET r == UserLogic(name, node, input, state, b)
    IN  IF r.kind # "return" THEN r
        ELSE LET v == ValidateToModel(node.output_model, r.value)
             IN  IF v.ok THEN Returned(v.value, state)
                 ELSE Raised(Error("PydanticValidationError", name, "node"), state)

\* HumanGateNode.run: appends an event to state.events and returns its input
HumanGateNodeRun(name, node, input, state) ==
    Returned(input,
             [state EXCEPT !.events =
                 Append(@, Event("human_gate_pending", state.run_id, name))])

BehavioursOf(node) == IF node.kind = "human_gate" THEN {"ok"} ELSE Behaviours

NodeRun(name, node, input, state, b) ==
    CASE node.kind = "python_function" -> PythonFunctionNodeRun(name, node, input, state, b)
      [] node.kind = "human_gate"      -> HumanGateNodeRun(name, node, input, state)
      [] OTHER                         -> UserLogic(name, node, input, state, b)

----------------------------------------------------------------------------
(* The step loop after node.run *)

SetOutcome(w, outcome, output) ==
    [w EXCEPT !.l.calls[Len(w.l.calls)].outcome = outcome,
              !.l.calls[Len(w.l.calls)].output = output]

\* OnPause without the save_checkpoint
OnPauseNoCheckpoint(w) ==
    LET name == w.l.cur
        w1 == Emit(w, Event("human_gate_pending", w.l.rid, name))
        w2 == [w1 EXCEPT !.l.state.context =
                            Put(@, PendingKey(name), ModelDump(w.l.input))]
        w3 == IF hasPersistence
              THEN DoUpdateRunStatus(w2, w.l.rid, "waiting")
              ELSE w2
    IN  Return(SetOutcome(w3, "pause", NoneVal), "waiting", NoneVal)

\* OnPause that sets the status before it saves the checkpoint
OnPauseStatusFirst(w) ==
    LET name == w.l.cur
        w1 == Emit(w, Event("human_gate_pending", w.l.rid, name))
        w2 == [w1 EXCEPT !.l.state.context =
                            Put(@, PendingKey(name), ModelDump(w.l.input))]
        w3 == IF hasPersistence
              THEN DoSaveCheckpoint(
                       DoUpdateRunStatus(w2, w.l.rid, "waiting"),
                       w.l.rid, name, ModelDumpJson(w2.l.state))
              ELSE w2
    IN  Return(SetOutcome(w3, "pause", NoneVal), "waiting", NoneVal)

\* OnPause that stashes the pending input only when it saves a checkpoint
OnPauseStashWhenPersistent(w) ==
    LET name == w.l.cur
        w1 == Emit(w, Event("human_gate_pending", w.l.rid, name))
        w2 == [w1 EXCEPT !.l.state.context =
                            Put(@, PendingKey(name), ModelDump(w.l.input))]
        w3 == IF hasPersistence
              THEN DoUpdateRunStatus(
                       DoSaveCheckpoint(w2, w.l.rid, name,
                                        ModelDumpJson(w2.l.state)),
                       w.l.rid, "waiting")
              ELSE w1
    IN  Return(SetOutcome(w3, "pause", NoneVal), "waiting", NoneVal)

\* OnPause that saves the checkpoint before it stashes the pending input
OnPauseCheckpointBeforeStash(w) ==
    LET name == w.l.cur
        w1 == Emit(w, Event("human_gate_pending", w.l.rid, name))
        w2 == IF hasPersistence
              THEN DoUpdateRunStatus(
                       DoSaveCheckpoint(w1, w.l.rid, name,
                                        ModelDumpJson(w1.l.state)),
                       w.l.rid, "waiting")
              ELSE w1
        w3 == [w2 EXCEPT !.l.state.context =
                            Put(@, PendingKey(name), ModelDump(w.l.input))]
    IN  Return(SetOutcome(w3, "pause", NoneVal), "waiting", NoneVal)

\* except HumanInputRequired
OnPause(w) ==
    LET name == w.l.cur
        w1 == Emit(w, Event("human_gate_pending", w.l.rid, name))
        w2 == [w1 EXCEPT !.l.state.context =
                            Put(@, PendingKey(name), ModelDump(w.l.input))]
        saved == DoSaveCheckpoint(w2, w.l.rid, name, ModelDumpJson(w2.l.state))
        w3 == IF hasPersistence
              THEN DoUpdateRunStatus(saved, w.l.rid, "waiting")
              ELSE w2
    IN  IF BackendRaises(w2, "save_checkpoint")
        THEN Raise(SetOutcome(w2, "pause", NoneVal),
                   BackendError("save_checkpoint"))
        ELSE IF BackendRaises(w2, "update_run_status")
        THEN Raise(SetOutcome(saved, "pause", NoneVal),
                   BackendError("update_run_status"))
        ELSE Return(SetOutcome(w3, "pause", NoneVal), "waiting", NoneVal)

\* OnNodeError that leaves the persisted status alone
OnNodeErrorNoStatus(w, err) ==
    Raise(SetOutcome(Emit(w, EventWithData("node_failed", w.l.rid, w.l.cur, err)),
                     "raise", NoneVal),
          err)

\* OnNodeError that goes on with the fallback node of the failed node's
\* ErrorPolicy when it names one
OnNodeErrorFallback(w, err) ==
    LET node == graph.nodes[w.l.cur]
        w1 == Emit(w, EventWithData("node_failed", w.l.rid, w.l.cur, err))
    IN  IF "error_policy" \in DOMAIN node /\ node.error_policy.fallback_node # None
        THEN EnterStep([SetOutcome(w1, "raise", NoneVal) EXCEPT
                            !.l.cur = node.error_policy.fallback_node])
        ELSE
        LET w2 == IF hasPersistence
                  THEN DoUpdateRunStatus(w1, w.l.rid, "failed")
                  ELSE w1
        IN  Raise(SetOutcome(w2, "raise", NoneVal), err)

\* OnNodeError that sets the status the pause path sets
OnNodeErrorWaiting(w, err) ==
    LET w1 == Emit(w, EventWithData("node_failed", w.l.rid, w.l.cur, err))
        w2 == IF hasPersistence
              THEN DoUpdateRunStatus(w1, w.l.rid, "waiting")
              ELSE w1
    IN  Raise(SetOutcome(w2, "raise", NoneVal), err)

\* except Exception
OnNodeError(w, err) ==
    LET w1 == Emit(w, EventWithData("node_failed", w.l.rid, w.l.cur, err))
        w2 == IF hasPersistence
              THEN DoUpdateRunStatus(w1, w.l.rid, "failed")
              ELSE w1
    IN  IF BackendRaises(w1, "update_run_status")
        THEN Raise(SetOutcome(w1, "raise", NoneVal),
                   BackendError("update_run_status"))
        ELSE Raise(SetOutcome(w2, "raise", NoneVal), err)

\* NextNode that picks the last successor
NextNodeLast(g, name) ==
    LET succ == Successors(g, name)
    IN  IF Len(succ) = 0 THEN None ELSE succ[Len(succ)]

\* the first successor, or None
NextNode(g, name) ==
    LET succ == Successors(g, name)
    IN  IF Len(succ) = 0 THEN None ELSE succ[1]

\* OnNodeOutput that records the output and emits node_finished before it
\* validates
OnNodeOutputFinishFirst(w, out) ==
    LET name == w.l.cur
        v == ValidateToModel(graph.nodes[name].output_model, out)
        w1 == [w EXCEPT !.l.state.node_outputs = Put(@, name, JsonValue(v.value))]
        w2 == Emit(w1, Event("node_finished", w.l.rid, name))
    IN  IF ~v.ok
        THEN Raise(SetOutcome(w2, "invalid", out),
                   Error("PydanticValidationError", name, "output"))
        ELSE
        LET w3 == IF hasPersistence
                  THEN Emit(DoSaveCheckpoint(w2, w.l.rid, name,
                                             ModelDumpJson(w1.l.state)),
                            Event("checkpoint_saved", w.l.rid, name))
                  ELSE w2
            nxt == NextNode(graph, name)
            w4 == [w3 EXCEPT !.l.last_output = v.value,
                             !.l.cur = nxt,
                             !.l.input = IF nxt = None THEN @ ELSE v.value]
        IN  EnterStep(SetOutcome(w4, "ok", v.value))

\* OnNodeOutput that records the output model itself, not its model_dump()
OnNodeOutputStoresModel(w, out) ==
    LET name == w.l.cur
        node == graph.nodes[name]
        v == ValidateToModel(node.output_model, out)
    IN  IF ~v.ok
        THEN Raise(SetOutcome(w, "invalid", out),
                   Error("PydanticValidationError", name, "output"))
        ELSE
        LET w1 == [w EXCEPT !.l.state.node_outputs = Put(@, name, v.value)]
            w2 == Emit(w1, Event("node_finished", w.l.rid, name))
            w3 == IF hasPersistence
                  THEN Emit(DoSaveCheckpoint(w2, w.l.rid, name,
                                             ModelDumpJson(w1.l.state)),
                            Event("checkpoint_saved", w.l.rid, name))
                  ELSE w2
            nxt == NextNode(graph, name)
            w4 == [w3 EXCEPT !.l.last_output = v.value,
                             !.l.cur = nxt,
                             !.l.input = IF nxt = None THEN @ ELSE v.value]
        IN  EnterStep(SetOutcome(w4, "ok", v.value))

\* OnNodeOutput that emits checkpoint_saved before it saves the checkpoint
OnNodeOutputSavedFirst(w, out) ==
    LET name == w.l.cur
        node == graph.nodes[name]
        v == ValidateToModel(node.output_model, out)
    IN  IF ~v.ok
        THEN Raise(SetOutcome(w, "invalid", out),
                   Error("PydanticValidationError", name, "output"))
        ELSE
        LET w1 == [w EXCEPT !.l.state.node_outputs = Put(@, name, ModelDump(v.value))]
            w2 == Emit(w1, Event("node_finished", w.l.rid, name))
            w3 == IF hasPersistence
                  THEN DoSaveCheckpoint(
                           Emit(w2, Event("checkpoint_saved", w.l.rid, name)),
                           w.l.rid, name, ModelDumpJson(w1.l.state))
                  ELSE w2
            nxt == NextNode(graph, name)
            w4 == [w3 EXCEPT !.l.last_output = v.value,
                             !.l.cur = nxt,
                             !.l.input = IF nxt = None THEN @ ELSE v.value]
        IN  EnterStep(SetOutcome(w4, "ok", v.value))

\* OnNodeOutput that goes on without a checkpoint when save_checkpoint raises
OnNodeOutputSwallowsSave(w, out) ==
    LET name == w.l.cur
        node == graph.nodes[name]
        v == ValidateToModel(node.output_model, out)
    IN  IF ~v.ok
        THEN Raise(SetOutcome(w, "invalid", out),
                   Error("PydanticValidationError", name, "output"))
        ELSE
        LET w1 == [w EXCEPT !.l.state.node_outputs = Put(@, name, ModelDump(v.value))]
            w2 == Emit(w1, Event("node_finished", w.l.rid, name))
            w3 == IF hasPersistence /\ ~BackendRaises(w2, "save_checkpoint")
                  THEN Emit(DoSaveCheckpoint(w2, w.l.rid, name,
                                             ModelDumpJson(w1.l.state)),
                            Event("checkpoint_saved", w.l.rid, name))
                  ELSE w2
            nxt == NextNode(graph, name)
            w4 == [w3 EXCEPT !.l.last_output = v.value,
                             !.l.cur = nxt,
                             !.l.input = IF nxt = None THEN @ ELSE v.value]
        IN  EnterStep(SetOutcome(w4, "ok", v.value))

\* node.run returned out: validate it, record it, checkpoint, move on
OnNodeOutput(w, out) ==
    LET name == w.l.cur
        node == graph.nodes[name]
        v == ValidateToModel(node.output_model, out)
    IN  IF ~v.ok
        THEN Raise(SetOutcome(w, "invalid", out),
                   Error("PydanticValidationError", name, "output"))
        ELSE
        LET w1 == [w EXCEPT !.l.state.node_outputs = Put(@, name, ModelDump(v.value))]
            w2 == Emit(w1, Event("node_finished", w.l.rid, name))
            w3 == IF hasPersistence
                  THEN Emit(DoSaveCheckpoint(w2, w.l.rid, name,
                                             ModelDumpJson(w1.l.state)),
                            Event("checkpoint_saved", w.l.rid, name))
                  ELSE w2
            nxt == NextNode(graph, name)
            w4 == [w3 EXCEPT !.l.last_output = v.value,
                             !.l.cur = nxt,
                             !.l.input = IF nxt = None THEN @ ELSE v.value]
        IN  IF BackendRaises(w2, "save_checkpoint")
            THEN Raise(SetOutcome(w2, "ok", v.value),
                       BackendError("save_checkpoint"))
            ELSE EnterStep(SetOutcome(w4, "ok", v.value))

\* everything run() does once node.run has completed with outcome r
AfterNode(w, r) ==
    LET w1 == [w EXCEPT !.l.state = r.state, !.l.executed = @ + 1]
    IN  CASE r.kind = "pause" -> OnPause(w1)
          [] r.kind = "raise" -> OnNodeError(w1, r.error)
          [] OTHER            -> OnNodeOutput(w1, r.value)

----------------------------------------------------------------------------
(* Entry of run() *)

\* ResumeInput that looks for the pending input first
ResumeInputPendingFirst(state, last_node_name, initial_input) ==
    IF PendingKey(last_node_name) \in DOMAIN state.context
    THEN state.context[PendingKey(last_node_name)]
    ELSE IF last_node_name \in DOMAIN state.node_outputs
    THEN state.node_outputs[last_node_name]
    ELSE initial_input

\* on resume: the input of the next node
ResumeInput(state, last_node_name, initial_input) ==
    IF last_node_name \in DOMAIN state.node_outputs
    THEN state.node_outputs[last_node_name]
    ELSE IF PendingKey(last_node_name) \in DOMAIN state.context
    THEN state.context[PendingKey(last_node_name)]
    ELSE initial_input

\* ResumeRun that emits run_started before it looks for the checkpoint
ResumeRunEmitFirst(w, resume_from_checkpoint, initial_input) ==
    LET loaded == LoadLatestCheckpoint(w.db, resume_from_checkpoint)
        state == ModelValidateJson(loaded.state_json)
        w0 == Emit(w, Event("run_started", resume_from_checkpoint, None))
    IN  IF ~loaded.found
        THEN Raise(w0, Error("RuntimeError", None, "no_checkpoint"))
        ELSE
        LET input == ResumeInput(state, loaded.node, initial_input)
            w1 == [w0 EXCEPT !.l.state = state, !.l.rid = state.run_id,
                             !.l.cur = NextNode(graph, loaded.node),
                             !.l.input = input,
                             !.l.resumed = TRUE, !.l.loaded = loaded,
                             !.l.initial_input = initial_input,
                             !.l.entry_input = input]
        IN  EnterStep(DoUpdateRunStatus(w1, state.run_id, "running"))

\* ResumeRun that takes the run id from the resume_from_checkpoint argument
ResumeRunIdFromKey(w, resume_from_checkpoint, initial_input) ==
    LET loaded == LoadLatestCheckpoint(w.db, resume_from_checkpoint)
    IN  IF ~loaded.found
        THEN Raise(w, Error("RuntimeError", None, "no_checkpoint"))
        ELSE
        LET state == ModelValidateJson(loaded.state_json)
            rid == resume_from_checkpoint
            input == ResumeInput(state, loaded.node, initial_input)
            w1 == [w EXCEPT !.l.state = state, !.l.rid = rid,
                            !.l.cur = NextNode(graph, loaded.node),
                            !.l.input = input,
                            !.l.resumed = TRUE, !.l.loaded = loaded,
                            !.l.initial_input = initial_input,
                            !.l.entry_input = input]
            w2 == DoUpdateRunStatus(w1, rid, "running")
        IN  EnterStep(Emit(w2, Event("run_started", rid, None)))

\* ResumeRun that runs the checkpointed node again when it has no successor
ResumeRunRerunsLast(w, resume_from_checkpoint, initial_input) ==
    LET loaded == LoadLatestCheckpoint(w.db, resume_from_checkpoint)
    IN  IF ~loaded.found
        THEN Raise(w, Error("RuntimeError", None, "no_checkpoint"))
        ELSE
        LET state == ModelValidateJson(loaded.state_json)
            rid == state.run_id
            input == ResumeInput(state, loaded.node, initial_input)
            nxt == NextNode(graph, loaded.node)
            w1 == [w EXCEPT !.l.state = state, !.l.rid = rid,
                            !.l.cur = IF nxt = None THEN loaded.node ELSE nxt,
                            !.l.input = input,
                            !.l.resumed = TRUE, !.l.loaded = loaded,
                            !.l.initial_input = initial_input,
                            !.l.entry_input = input]
            w2 == DoUpdateRunStatus(w1, rid, "running")
        IN  EnterStep(Emit(w2, Event("run_started", rid, None)))

\* ResumeRun that leaves the persisted status as it finds it
ResumeRunKeepsStatus(w, resume_from_checkpoint, initial_input) ==
    LET loaded == LoadLatestCheckpoint(w.db, resume_from_checkpoint)
    IN  IF ~loaded.found
        THEN Raise(w, Error("RuntimeError", None, "no_checkpoint"))
        ELSE
        LET state == ModelValidateJson(loaded.state_json)
            rid == state.run_id
            input == ResumeInput(state, loaded.node, initial_input)
            w1 == [w EXCEPT !.l.state = state, !.l.rid = rid,
                            !.l.cur = NextNode(graph, loaded.node),
                            !.l.input = input,
                            !.l.resumed = TRUE, !.l.loaded = loaded,
                            !.l.initial_input = initial_input,
                            !.l.entry_input = input]
        IN  EnterStep(Emit(w1, Event("run_started", rid, None)))

\* ResumeRun that refuses a run another invocation has set running
ResumeRunExclusive(w, resume_from_checkpoint, initial_input) ==
    LET loaded == LoadLatestCheckpoint(w.db, resume_from_checkpoint)
    IN  IF ~loaded.found
        THEN Raise(w, Error("RuntimeError", None, "no_checkpoint"))
        ELSE IF StatusOf(w.db, resume_from_checkpoint) = "running"
        THEN Raise(w, Error("RuntimeError", None, "locked"))
        ELSE
        LET state == ModelValidateJson(loaded.state_json)
            rid == state.run_id
            input == ResumeInput(state, loaded.node, initial_input)
            w1 == [w EXCEPT !.l.state = state, !.l.rid = rid,
                            !.l.cur = NextNode(graph, loaded.node),
                            !.l.input = input,
                            !.l.resumed = TRUE, !.l.loaded = loaded,
                            !.l.initial_input = initial_input,
                            !.l.entry_input = input]
            w2 == DoUpdateRunStatus(w1, rid, "running")
        IN  EnterStep(Emit(w2, Event("run_started", rid, None)))

\* the resume path of run()
ResumeRun(w, resume_from_checkpoint, initial_input) ==
    LET loaded == LoadLatestCheckpoint(w.db, resume_from_checkpoint)
    IN  IF BackendRaises(w, "load_latest_checkpoint")
        THEN Raise(w, BackendError("load_latest_checkpoint"))
        ELSE IF ~loaded.found
        THEN Raise(w, Error("RuntimeError", None, "no_checkpoint"))
        ELSE
        LET state == ModelValidateJson(loaded.state_json)
            rid == state.run_id
            input == ResumeInput(state, loaded.node, initial_input)
            w1 == [w EXCEPT !.l.state = state, !.l.rid = rid,
                            !.l.cur = NextNode(graph, loaded.node),
                            !.l.input = input,
                            !.l.resumed = TRUE, !.l.loaded = loaded,
                            !.l.initial_input = initial_input,
                            !.l.entry_input = input]
            w2 == DoUpdateRunStatus(w1, rid, "running")
        IN  IF BackendRaises(w1, "update_run_status")
            THEN Raise(w1, BackendError("update_run_status"))
            ELSE EnterStep(Emit(w2, Event("run_started", rid, None)))

\* the fresh path of run()
FreshRun(w, rid, initial_input) ==
    IF BackendRaises(w, "create_run")
    THEN Raise([w EXCEPT !.l.rid = rid], BackendError("create_run"))
    ELSE IF hasPersistence /\ CreateRunFails(w.db, rid)
    THEN Raise(w, Error("IntegrityError", None, "create_run"))
    ELSE
    LET w1 == [w EXCEPT !.l.state = NewRunState(rid), !.l.rid = rid,
                        !.l.cur = graph.entrypoint,
                        !.l.input = initial_input]
        w2 == IF hasPersistence THEN DoCreateRun(w1, rid) ELSE w1
    IN  EnterStep(Emit(w2, Event("run_started", rid, None)))

\* run() that opens the run in the backend before it validates the graph
RunValidatesLate(w, initial_input, resume_from_checkpoint, run_id, uuid) ==
    IF GraphValidate(graph) # "ok"
    THEN LET rid == IF resume_from_checkpoint # None
                    THEN resume_from_checkpoint
                    ELSE IF run_id # None THEN run_id ELSE uuid
             w1 == IF ~hasPersistence THEN w
                   ELSE IF resume_from_checkpoint # None
                   THEN DoUpdateRunStatus(w, rid, "running")
                   ELSE DoCreateRun(w, rid)
         IN  Raise(w1, Error("GraphValidationError", None, GraphValidate(graph)))
    ELSE IF resume_from_checkpoint # None /\ hasPersistence
    THEN ResumeRun(w, resume_from_checkpoint, initial_input)
    ELSE FreshRun(w, IF run_id # None THEN run_id ELSE uuid, initial_input)

\* run() that takes the resume path whenever a resume id is given
RunResumesWithoutBackend(w, initial_input, resume_from_checkpoint, run_id, uuid) ==
    IF GraphValidate(graph) # "ok"
    THEN Raise(w, Error("GraphValidationError", None, GraphValidate(graph)))
    ELSE IF resume_from_checkpoint # None
    THEN ResumeRun(w, resume_from_checkpoint, initial_input)
    ELSE FreshRun(w, IF run_id # None THEN run_id ELSE uuid, initial_input)

\* run(graph, initial_input, resume_from_checkpoint=..., run_id=...)
Run(w, initial_input, resume_from_checkpoint, run_id, uuid) ==
    IF GraphValidate(graph) # "ok"
    THEN Raise(w, Error("GraphValidationError", None, GraphValidate(graph)))
    ELSE IF resume_from_checkpoint # None /\ hasPersistence
    THEN ResumeRun(w, resume_from_checkpoint, initial_input)
    ELSE FreshRun(w, IF run_id # None THEN run_id ELSE uuid, initial_input)

----------------------------------------------------------------------------
(* The state machine *)

InvSlots == {1, 2}
UnknownRunId == "zz"
SeededRunId == "r1"

\* what the backend holds when the runner is first used: nothing, or a run
\* another client created through create_run and save_checkpoint, with an
\* empty RunState in a checkpoint tagged with the entrypoint
InitialDbs(g, persistent) ==
    {EmptyDb} \cup
    (IF persistent /\ g.entrypoint \in DOMAIN g.nodes
     THEN {SaveCheckpoint(CreateRun(EmptyDb, SeededRunId), SeededRunId,
                          g.entrypoint,
                          ModelDumpJson(NewRunState(SeededRunId)))}
     ELSE {})

\* nothing recorded about a slot's call of run()
NoArgs ==
    [initial_input |-> NoneVal, resume_from_checkpoint |-> None,
     run_id |-> None, uuid |-> None, db |-> EmptyDb, heard |-> 0,
     behaviours |-> <<>>]

Init ==
    /\ graph \in Graphs
    /\ hasPersistence \in BOOLEAN
    /\ db \in InitialDbs(graph, hasPersistence)
    /\ heard = <<>>
    /\ trace = <<>>
    /\ handlers = <<Handler("records", 0)>>
    /\ addEventRaises = FALSE
    /\ bgraph = EmptyGraph
    /\ bresult = NoCall
    /\ inv = [i \in InvSlots |-> IdleLocals]
    /\ invCount = 0
    /\ uuidCount = 0
    /\ args = [i \in InvSlots |-> NoArgs]

\* a caller invokes run() with these arguments; the step ends at the first
\* await of node.run, or when run() returns or raises
BeginWith(i, initial_input, resume_from_checkpoint, run_id) ==
    /\ inv[i].pc \in {"idle", "done"}
    /\ invCount < MaxInvocations
    /\ LET fresh == ~(resume_from_checkpoint # None /\ hasPersistence)
           draws == GraphValidate(graph) = "ok" /\ fresh /\ run_id = None
           w0 == [db |-> db, heard |-> heard, trace |-> <<>>,
                  l |-> [IdleLocals EXCEPT
                           !.checkpoints_at_entry = Len(db.checkpoints)]]
           w == Run(w0, initial_input, resume_from_checkpoint, run_id,
                    UuidPool[uuidCount + 1])
       IN  /\ db' = w.db
           /\ heard' = w.heard
           /\ trace' = w.trace
           /\ inv' = [inv EXCEPT ![i] = w.l]
           /\ uuidCount' = IF draws THEN uuidCount + 1 ELSE uuidCount
    /\ invCount' = invCount + 1
    /\ UNCHANGED <<graph, hasPersistence, handlers, addEventRaises,
                   bgraph, bresult>>

\* a caller invokes run()
Begin(i) ==
    /\ \E initial_input \in Inputs,
          resume_from_checkpoint \in {None, UnknownRunId} \cup DOMAIN db.runs,
          run_id \in {None} \cup CallerRunIds :
         BeginWith(i, initial_input, resume_from_checkpoint, run_id)
    /\ UNCHANGED args

\* the awaited node.run completes, its logic having done b; the step ends at
\* the next await of node.run, or when run() returns or raises
NodeReturnWith(i, b) ==
    /\ inv[i].pc = "in_node"
    /\ inv[i].steps <= MaxSteps
    /\ b \in BehavioursOf(graph.nodes[inv[i].cur])
    /\ LET l == inv[i]
           r == NodeRun(l.cur, graph.nodes[l.cur], l.input, l.state, b)
           w == AfterNode([db |-> db, heard |-> heard, trace |-> <<>>,
                           l |-> l], r)
       IN  /\ db' = w.db
           /\ heard' = w.heard
           /\ trace' = w.trace
           /\ inv' = [inv EXCEPT ![i] = w.l]
    /\ UNCHANGED <<graph, hasPersistence, handlers, addEventRaises,
                   bgraph, bresult, invCount, uuidCount>>

\* the awaited node.run completes
NodeReturn(i) ==
    /\ \E b \in Behaviours : NodeReturnWith(i, b)
    /\ UNCHANGED args

Next ==
    \/ Begin(1)
    \/ NodeReturn(1)

Spec == Init /\ [][Next]_vars

----------------------------------------------------------------------------
(* Vocabulary of the properties *)

L == inv[1]
Done == L.pc = "done"
HasCalls == Len(L.calls) > 0
LastCall == L.calls[Len(L.calls)]
Emitted == L.emitted

CountEv(evs, t) == Cardinality({k \in 1..Len(evs) : evs[k].type = t})
CountCalls(outcomes) ==
    Cardinality({k \in 1..Len(L.calls) : L.calls[k].outcome \in outcomes})

\* checkpoints saved since the invocation was entered
NewCheckpoints == Len(db.checkpoints) - L.checkpoints_at_entry

LoadedState == ModelValidateJson(L.loaded.state_json)

RECURSIVE FirstPath(_, _, _)
\* the nodes visited from n by following first successors, at most k of them
FirstPath(g, n, k) ==
    IF n = None \/ k = 0 THEN <<>>
    ELSE <<n>> \o FirstPath(g, NextNode(g, n), k - 1)

\* the graph is one chain from the entrypoint through all its nodes
IsChain(g) ==
    /\ GraphValidate(g) = "ok"
    /\ \A n \in DOMAIN g.nodes : Len(Successors(g, n)) <= 1
    /\ LET N == Cardinality(DOMAIN g.nodes)
           p == FirstPath(g, g.entrypoint, N + 1)
       IN  Len(p) = N /\ {p[k] : k \in 1..Len(p)} = DOMAIN g.nodes

----------------------------------------------------------------------------
(* C1: a fresh run, with a persistence backend, on a chain of N nodes in   *)
(* which no node fails or pauses and every value validates emits one       *)
(* run_started first, N node_started, N node_finished, N checkpoint_saved  *)
(* and one run_finished last, all under its run id; it returns status      *)
(* finished, the persisted status is finished and node_outputs holds all   *)
(* N node names.                                                           *)

C1_Case ==
    /\ Done /\ hasPersistence /\ ~L.resumed /\ IsChain(graph)
    /\ L.result.kind = "returned"
    /\ CountCalls({"pause"}) = 0

C1_LinearRun ==
    C1_Case =>
        LET N == Cardinality(DOMAIN graph.nodes)
        IN  /\ Emitted[1] = Event("run_started", L.rid, None)
            /\ Emitted[Len(Emitted)] = Event("run_finished", L.rid, None)
            /\ CountEv(Emitted, "run_started") = 1
            /\ CountEv(Emitted, "run_finished") = 1
            /\ CountEv(Emitted, "node_started") = N
            /\ CountEv(Emitted, "node_finished") = N
            /\ CountEv(Emitted, "checkpoint_saved") = N
            /\ Len(Emitted) = 3 * N + 2
            /\ GetEvents(db, L.rid) = Emitted
            /\ L.result.status = "finished"
            /\ StatusOf(db, L.rid) = "finished"
            /\ DOMAIN L.state.node_outputs = DOMAIN graph.nodes

C1_Witness == C1_Case /\ Cardinality(DOMAIN graph.nodes) = 3

----------------------------------------------------------------------------
(* C2: when the invoked node raises HumanInputRequired the invocation      *)
(* returns status waiting with output none, a human_gate_pending event for *)
(* the node is recorded, context["pending_input:<node>"] in the returned   *)
(* state is the dump of the coerced input the node received (an instance   *)
(* of its input model), and with a backend the persisted status is waiting *)
(* and the latest checkpoint of the run is tagged with the node and holds  *)
(* the same pending input.                                                 *)

C2_Case == Done /\ HasCalls /\ LastCall.outcome = "pause"

C2_Pause ==
    C2_Case =>
        LET n == LastCall.node
            pending == Dict(Fields(graph.nodes[n].input_model), LastCall.input.val)
        IN  /\ L.result.kind = "returned"
            /\ L.result.status = "waiting"
            /\ L.result.output = NoneVal
            /\ LastCall.input.kind = "model"
            /\ LastCall.input.type = graph.nodes[n].input_model
            /\ \E k \in 1..Len(Emitted) :
                   Emitted[k] = Event("human_gate_pending", L.rid, n)
            /\ PendingKey(n) \in DOMAIN L.state.context
            /\ L.state.context[PendingKey(n)] = pending
            /\ hasPersistence =>
                 LET c == LoadLatestCheckpoint(db, L.rid)
                     cs == ModelValidateJson(c.state_json)
                 IN  /\ StatusOf(db, L.rid) = "waiting"
                     /\ c.found /\ c.node = n
                     /\ PendingKey(n) \in DOMAIN cs.context
                     /\ cs.context[PendingKey(n)] = pending
                     /\ \E k \in 1..Len(db.events) :
                            db.events[k] = Event("human_gate_pending", L.rid, n)

C2_Witness == C2_Case /\ hasPersistence /\ Len(L.calls) = 2

----------------------------------------------------------------------------
(* C3: resuming a run that paused at node G runs under the run id of the   *)
(* checkpoint, sets the persisted status to running, emits a second        *)
(* run_started under that run id, and the first node it invokes is G's     *)
(* first successor, not G; if it returns finished the persisted status is  *)
(* finished and the output is that of the last node invoked, which has no  *)
(* successors.                                                             *)

C3_Case ==
    /\ L.pc \in {"in_node", "done"}
    /\ L.resumed
    /\ PendingKey(L.loaded.node) \in DOMAIN LoadedState.context

----------------------------------------------------------------------------
(* C4: when the invoked node raises an error other than the pause signal,  *)
(* node_failed for that node, carrying the error, is the last event and    *)
(* directly follows its node_started; the persisted status is failed; the  *)
(* same error is raised to the caller; the step produces no node_finished, *)
(* no checkpoint and no checkpoint_saved, and no run_finished is emitted.  *)

C4_Case == Done /\ HasCalls /\ LastCall.outcome = "raise"

C4_NodeFailure ==
    C4_Case =>
        LET n == LastCall.node
            m == Len(Emitted)
        IN  /\ L.result.kind = "raised"
            /\ L.result.error.node = n
            /\ L.result.error.at = "node"
            /\ L.result.error.type \in {"ValueError", "PydanticValidationError"}
            /\ m >= 3
            /\ Emitted[m] = EventWithData("node_failed", L.rid, n, L.result.error)
            /\ Emitted[m - 1] = Event("node_started", L.rid, n)
            /\ hasPersistence => StatusOf(db, L.rid) = "failed"
            /\ CountEv(Emitted, "run_finished") = 0
            /\ CountEv(Emitted, "node_finished") = CountCalls({"ok"})
            /\ CountEv(Emitted, "checkpoint_saved") =
                   IF hasPersistence THEN CountCalls({"ok"}) ELSE 0
            /\ NewCheckpoints = IF hasPersistence THEN CountCalls({"ok"}) ELSE 0

C4_Witness ==
    /\ C4_Case /\ hasPersistence /\ Len(L.calls) = 2
    /\ L.result.error.type = "ValueError"

----------------------------------------------------------------------------
(* C5: on resume from a checkpoint tagged c the input chosen for the next  *)
(* node is the restored node_outputs[c] if present, else the restored      *)
(* context["pending_input:c"] if present, else the caller's initial_input; *)
(* the node invoked first receives that value coerced to its input model.  *)

C5_ResumeInput ==
    L.resumed =>
        LET c == L.loaded.node
            S == LoadedState
            hasOut == c \in DOMAIN S.node_outputs
            hasPending == PendingKey(c) \in DOMAIN S.context
        IN  /\ hasOut => L.entry_input = S.node_outputs[c]
            /\ (~hasOut /\ hasPending) =>
                   L.entry_input = S.context[PendingKey(c)]
            /\ (~hasOut /\ ~hasPending) => L.entry_input = L.initial_input
            /\ HasCalls =>
                   /\ L.calls[1].input.val = L.entry_input.val
                   /\ L.calls[1].input.type =
                          graph.nodes[L.calls[1].node].input_model

C5_Witness ==
    /\ L.resumed /\ HasCalls
    /\ L.loaded.node \in DOMAIN LoadedState.node_outputs
    /\ PendingKey(L.loaded.node) \in DOMAIN LoadedState.context
    /\ LoadedState.node_outputs[L.loaded.node]
           # LoadedState.context[PendingKey(L.loaded.node)]

C5_PendingReached ==
    /\ L.resumed /\ HasCalls
    /\ L.loaded.node \notin DOMAIN LoadedState.node_outputs
    /\ PendingKey(L.loaded.node) \in DOMAIN LoadedState.context

C5_FallbackReached ==
    /\ L.resumed /\ HasCalls
    /\ L.loaded.node \notin DOMAIN LoadedState.node_outputs
    /\ PendingKey(L.loaded.node) \notin DOMAIN LoadedState.context
    /\ L.initial_input # NoneVal

----------------------------------------------------------------------------
(* C6: a resume of a run id for which the backend holds no checkpoint      *)
(* raises the no-checkpoint RuntimeError, and that invocation emits no     *)
(* event, leaves the backend (statuses, checkpoints, events) as it was and *)
(* invokes no node.                                                        *)

C6_Step ==
    /\ invCount' = invCount + 1
    /\ inv'[1].result.error.at = "no_checkpoint"

C6_NoCheckpoint ==
    [][C6_Step =>
          /\ inv'[1].pc = "done"
          /\ inv'[1].result.kind = "raised"
          /\ inv'[1].result.error = Error("RuntimeError", None, "no_checkpoint")
          /\ db' = db
          /\ heard' = heard
          /\ inv'[1].emitted = <<>>
          /\ inv'[1].calls = <<>>]_vars

C6_Witness ==
    /\ Done /\ hasPersistence
    /\ L.result.error.at = "no_checkpoint"
    /\ Len(db.checkpoints) > 0
    /\ Len(db.events) > 0

----------------------------------------------------------------------------
(* C7: when the current input does not conform to the current node's input *)
(* model the validation error is raised before the node is started: no     *)
(* node_started and no node_failed is emitted for the step, the node is    *)
(* not invoked, and the persisted status is what it was when the step      *)
(* began (running); a fresh run with an invalid initial input has emitted  *)
(* run_started only.                                                       *)

C7_Case == Done /\ L.result.error.at = "input"

C7_InputValidation ==
    C7_Case =>
        /\ L.result.kind = "raised"
        /\ L.result.error = Error("PydanticValidationError", L.cur, "input")
        /\ L.steps = Len(L.calls) + 1
        /\ CountEv(Emitted, "node_started") = Len(L.calls)
        /\ CountEv(Emitted, "node_failed") = 0
        /\ CountEv(Emitted, "run_finished") = 0
        /\ Emitted[Len(Emitted)].type
               \in {"run_started", "node_finished", "checkpoint_saved"}
        /\ \A k \in 1..Len(L.calls) : L.calls[k].outcome = "ok"
        /\ StatusOf(db, L.rid) = L.status_at_step
        /\ hasPersistence => StatusOf(db, L.rid) = "running"
        /\ (~L.resumed /\ L.steps = 1) =>
               Emitted = <<Event("run_started", L.rid, None)>>

C7_Witness == C7_Case /\ hasPersistence /\ ~L.resumed

C7_ResumeReached == C7_Case /\ L.resumed

----------------------------------------------------------------------------
(* C8: when a node returns a value that does not conform to its output     *)
(* model, a validation error is raised to the caller with node_started     *)
(* the last event emitted: no node_finished, no checkpoint and no          *)
(* checkpoint_saved for the step, node_outputs as it was before the step,  *)
(* and the persisted status unchanged.                                     *)

RECURSIVE OutputsAfter(_, _, _)
\* node_outputs after the first k calls, starting from m
OutputsAfter(m, calls, k) ==
    IF k = 0 THEN m
    ELSE LET prev == OutputsAfter(m, calls, k - 1)
         IN  IF calls[k].outcome = "ok"
             THEN Put(prev, calls[k].node,
                      Dict(Fields(calls[k].output.type), calls[k].output.val))
             ELSE prev

OutputsAtEntry == IF L.resumed THEN LoadedState.node_outputs ELSE EmptyMap

C8_Case == Done /\ HasCalls /\ LastCall.outcome = "invalid"

C8_OutputValidation ==
    C8_Case =>
        LET n == LastCall.node
        IN  /\ L.result.kind = "raised"
            /\ L.result.error = Error("PydanticValidationError", n, "output")
            /\ Emitted[Len(Emitted)] = Event("node_started", L.rid, n)
            /\ CountEv(Emitted, "node_finished") = CountCalls({"ok"})
            /\ CountEv(Emitted, "node_failed") = 0
            /\ CountEv(Emitted, "run_finished") = 0
            /\ CountEv(Emitted, "checkpoint_saved") =
                   IF hasPersistence THEN CountCalls({"ok"}) ELSE 0
            /\ NewCheckpoints = IF hasPersistence THEN CountCalls({"ok"}) ELSE 0
            /\ L.state.node_outputs =
                   OutputsAfter(OutputsAtEntry, L.calls, Len(L.calls) - 1)
            /\ StatusOf(db, L.rid) = L.status_at_step
            /\ hasPersistence => StatusOf(db, L.rid) = "running"

C8_Witness == C8_Case /\ hasPersistence /\ Len(L.calls) = 2

----------------------------------------------------------------------------
(* C9: when the function wrapped by a PythonFunctionNode returns a value   *)
(* that does not match the node's output model, the run raises a           *)
(* validation error, node_started is emitted, node_finished and            *)
(* checkpoint_saved are not, and the persisted status stays running.       *)

C9_Case ==
    /\ Done /\ HasCalls /\ hasPersistence
    /\ graph.nodes[LastCall.node].kind = "python_function"
    /\ L.result.error.type = "PydanticValidationError"
    /\ L.result.error.at \in {"node", "output"}

C9_PythonFunctionBadOutput ==
    C9_Case =>
        /\ L.result.kind = "raised"
        /\ \E k \in 1..Len(Emitted) :
               Emitted[k] = Event("node_started", L.rid, LastCall.node)
        /\ CountEv(Emitted, "node_finished") = CountCalls({"ok"})
        /\ CountEv(Emitted, "checkpoint_saved") = CountCalls({"ok"})
        /\ StatusOf(db, L.rid) = "running"

----------------------------------------------------------------------------
(* C10: a run that reaches a HumanGateNode pauses there: the invocation    *)
(* returns status waiting, the persisted status is waiting, the last       *)
(* checkpoint is tagged with the gate, context holds pending_input:<gate>  *)
(* and the gate's successor is not executed in that invocation.            *)

C10_Case(k) ==
    /\ graph.nodes[L.calls[k].node].kind = "human_gate"
    /\ L.calls[k].outcome # "running"

C10_HumanGatePauses ==
    \A k \in 1..Len(L.calls) :
        C10_Case(k) =>
            /\ L.calls[k].outcome = "pause"
            /\ k = Len(L.calls)
            /\ Done
            /\ L.result.status = "waiting"
            /\ PendingKey(L.calls[k].node) \in DOMAIN L.state.context
            /\ hasPersistence =>
                 /\ StatusOf(db, L.rid) = "waiting"
                 /\ LoadLatestCheckpoint(db, L.rid).node = L.calls[k].node

----------------------------------------------------------------------------
(* A client building a Graph: add_node, connect, set_entry, a direct       *)
(* assignment of the entrypoint attribute (tests/core/test_graph.py),      *)
(* validate, successors and predecessors, on a graph that starts empty.    *)

MaxEdges == 2         \* edges a client connects

\* the names a client gives its nodes; a name may be the empty string
BuilderNames == {"a", ""}
\* a name no node is registered under
GhostName == "ghost"

NodeShapes ==
    {Node("node", "InModel", "InModel"), Node("node", "InModel", "MidModel")}

LargeGraph ==
    [nodes |-> [n \in {"n" \o ToString(i) : i \in 1..(MaxGraphNodes - 1)} |->
                   Node("node", "InModel", "InModel")],
     edges |-> <<>>, entrypoint |-> None]

GraphInit ==
    /\ bgraph = EmptyGraph
    /\ bresult = NoCall
    /\ graph = LinearGraph
    /\ hasPersistence = FALSE
    /\ db = EmptyDb
    /\ heard = <<>>
    /\ trace = <<>>
    /\ handlers = <<>>
    /\ addEventRaises = FALSE
    /\ inv = [i \in InvSlots |-> IdleLocals]
    /\ invCount = 0
    /\ uuidCount = 0
    /\ args = [i \in InvSlots |-> NoArgs]

RunnerUnchanged ==
    UNCHANGED <<graph, hasPersistence, db, heard, trace, handlers,
                addEventRaises, inv, invCount, uuidCount, args>>

AddNode ==
    /\ \E name \in BuilderNames, node \in NodeShapes :
         LET r == GraphAddNode(bgraph, name, node)
         IN  /\ bgraph' = r.graph
             /\ bresult' = [op |-> "add_node", a |-> name,
                            b |-> node.output_model,
                            outcome |-> r.outcome, value |-> <<>>]
    /\ RunnerUnchanged

Connect ==
    /\ \E src \in BuilderNames \cup {GhostName},
          dst \in BuilderNames \cup {GhostName} :
         LET r == GraphConnect(bgraph, src, dst)
         IN  /\ Len(r.graph.edges) <= MaxEdges
             /\ bgraph' = r.graph
             /\ bresult' = [op |-> "connect", a |-> src, b |-> dst,
                            outcome |-> r.outcome, value |-> <<>>]
    /\ RunnerUnchanged

SetEntry ==
    /\ \E name \in BuilderNames \cup {GhostName} :
         LET r == GraphSetEntry(bgraph, name)
         IN  /\ bgraph' = r.graph
             /\ bresult' = [op |-> "set_entry", a |-> name, b |-> None,
                            outcome |-> r.outcome, value |-> <<>>]
    /\ RunnerUnchanged

\* g.entrypoint = "ghost"
AssignEntrypoint ==
    /\ bgraph' = [bgraph EXCEPT !.entrypoint = GhostName]
    /\ bresult' = [op |-> "assign_entrypoint", a |-> GhostName, b |-> None,
                   outcome |-> "ok", value |-> <<>>]
    /\ RunnerUnchanged

Validate ==
    /\ bresult' = [op |-> "validate", a |-> None, b |-> None,
                   outcome |-> GraphValidate(bgraph), value |-> <<>>]
    /\ UNCHANGED bgraph
    /\ RunnerUnchanged

SuccessorsCall ==
    /\ \E n \in BuilderNames \cup {GhostName} :
         bresult' = [op |-> "successors", a |-> n, b |-> None,
                     outcome |-> "ok", value |-> Successors(bgraph, n)]
    /\ UNCHANGED bgraph
    /\ RunnerUnchanged

PredecessorsCall ==
    /\ \E n \in BuilderNames \cup {GhostName} :
         bresult' = [op |-> "predecessors", a |-> n, b |-> None,
                     outcome |-> "ok", value |-> Predecessors(bgraph, n)]
    /\ UNCHANGED bgraph
    /\ RunnerUnchanged

GraphNext ==
    \/ AddNode
    \/ Connect
    \/ SetEntry
    \/ AssignEntrypoint
    \/ Validate
    \/ SuccessorsCall
    \/ PredecessorsCall

GraphSpec == GraphInit /\ [][GraphNext]_vars

\* the same client on a graph that starts with MaxGraphNodes - 1 nodes
LargeInit ==
    /\ bgraph = LargeGraph
    /\ bresult = NoCall
    /\ graph = LinearGraph
    /\ hasPersistence = FALSE
    /\ db = EmptyDb
    /\ heard = <<>>
    /\ trace = <<>>
    /\ handlers = <<>>
    /\ addEventRaises = FALSE
    /\ inv = [i \in InvSlots |-> IdleLocals]
    /\ invCount = 0
    /\ uuidCount = 0
    /\ args = [i \in InvSlots |-> NoArgs]

LargeNext ==
    \/ AddNode
    \/ SetEntry
    \/ Validate

LargeSpec == LargeInit /\ [][LargeNext]_vars

----------------------------------------------------------------------------
(* C11: on the pause path the last two events of the invocation are        *)
(* node_started and human_gate_pending for the paused node; in the pausing *)
(* step the event is delivered (backend, then handlers) before the         *)
(* checkpoint is saved and the checkpoint is saved before the status is    *)
(* set to waiting; the step emits no node_finished, checkpoint_saved or    *)
(* run_finished and writes no node_outputs entry.                          *)

C11_Case == Done /\ HasCalls /\ LastCall.outcome = "pause" /\ L.result.kind = "returned"

\* the calls of one _emit of an event of type t for node n
EmitCalls(t, n) ==
    (IF hasPersistence THEN <<Call("add_event", t, n)>> ELSE <<>>)
        \o [i \in 1..Len(handlers) |-> Call("handler", i, t)]

C11_PauseOrder ==
    C11_Case =>
        LET n == LastCall.node
            m == Len(Emitted)
        IN  /\ m >= 2
            /\ Emitted[m - 1] = Event("node_started", L.rid, n)
            /\ Emitted[m] = Event("human_gate_pending", L.rid, n)
            /\ trace = EmitCalls("human_gate_pending", n)
                       \o (IF hasPersistence
                           THEN <<Call("save_checkpoint", L.rid, n),
                                  Call("update_run_status", L.rid, "waiting")>>
                           ELSE <<>>)
            /\ CountEv(Emitted, "run_finished") = 0
            /\ CountEv(Emitted, "node_finished") = CountCalls({"ok"})
            /\ CountEv(Emitted, "checkpoint_saved") =
                   IF hasPersistence THEN CountCalls({"ok"}) ELSE 0
            /\ L.state.node_outputs =
                   OutputsAfter(OutputsAtEntry, L.calls, Len(L.calls) - 1)

C11_Witness == C11_Case /\ hasPersistence /\ Len(trace) = 4 /\ Len(L.calls) = 3

----------------------------------------------------------------------------
(* The step loop run to its iteration cap: one invocation on the cycle     *)
(* a -> b -> a, without a backend and without handlers, with nodes that    *)
(* always succeed.  Of the history of the invocation only the latest call  *)
(* and the latest two events are kept, so that a state stays small.        *)

Succeeding == {"ok", "ok_dict"}

KeepRecent(l) ==
    [l EXCEPT !.emitted = IF Len(@) <= 2 THEN @ ELSE SubSeq(@, Len(@) - 1, Len(@)),
              !.calls = IF Len(@) <= 1 THEN @ ELSE <<@[Len(@)]>>]

CapInit ==
    /\ graph = CycleGraph
    /\ hasPersistence = FALSE
    /\ db = EmptyDb
    /\ heard = <<>>
    /\ trace = <<>>
    /\ handlers = <<>>
    /\ addEventRaises = FALSE
    /\ bgraph = EmptyGraph
    /\ bresult = NoCall
    /\ inv = [i \in InvSlots |-> IdleLocals]
    /\ invCount = 0
    /\ uuidCount = 0
    /\ args = [i \in InvSlots |-> NoArgs]

CapBegin == invCount = 0 /\ Begin(1)

CapNodeReturn ==
    /\ inv[1].pc = "in_node"
    /\ \E b \in Succeeding :
         LET l == inv[1]
             r == NodeRun(l.cur, graph.nodes[l.cur], l.input, l.state, b)
             w == AfterNode([db |-> db, heard |-> heard, trace |-> <<>>,
                             l |-> l], r)
         IN  /\ db' = w.db
             /\ heard' = w.heard
             /\ trace' = w.trace
             /\ inv' = [inv EXCEPT ![1] = KeepRecent(w.l)]
    /\ UNCHANGED <<graph, hasPersistence, handlers, addEventRaises,
                   bgraph, bresult, invCount, uuidCount, args>>

CapNext ==
    \/ CapBegin
    \/ CapNodeReturn

CapSpec == CapInit /\ [][CapNext]_vars

----------------------------------------------------------------------------
(* C12: an invocation completes at most 10000 calls of node.run, so it    *)
(* terminates when its nodes do; on the cycle of always-succeeding nodes   *)
(* it cannot finish and ends by raising the iteration-cap RuntimeError     *)
(* after exactly 10000 completed calls: the 10001st step is refused before *)
(* its node_started and before any call of the node.                       *)

C12_Case == Done /\ L.result.error.at = "iteration_cap"

C12_IterationCap ==
    /\ L.executed <= IterationCap
    /\ L.steps <= IterationCap + 1
    /\ (Done /\ L.executed > 0) => C12_Case
    /\ C12_Case =>
        /\ L.result.kind = "raised"
        /\ L.result.error = Error("RuntimeError", None, "iteration_cap")
        /\ L.executed = IterationCap
        /\ L.steps = IterationCap + 1
        /\ LastCall.outcome = "ok"
        /\ L.cur = NextNode(graph, LastCall.node)
        /\ Emitted[Len(Emitted)] = Event("node_finished", L.rid, LastCall.node)

C12_Witness == C12_Case /\ L.executed = IterationCap

----------------------------------------------------------------------------
(* C13: when the node just executed has outgoing edges, the next node      *)
(* executed is the dst of the earliest-inserted edge from it and receives  *)
(* the validated output as its input; no other successor is started, in    *)
(* fresh and in resumed runs alike (a resumed run starts at the dst of the *)
(* earliest edge from the checkpointed node).  When it has no outgoing     *)
(* edge the loop ends.                                                     *)

\* the positions of the edges leaving n
EdgesFrom(g, n) == {k \in 1..Len(g.edges) : g.edges[k].src = n}

\* the dst of the earliest-inserted edge leaving n
FirstEdgeDst(g, n) ==
    LET K == EdgesFrom(g, n)
    IN  g.edges[CHOOSE k \in K : \A j \in K : k <= j].dst

C13_FirstSuccessor ==
    /\ \A k \in 1..(Len(L.calls) - 1) :
         /\ L.calls[k].outcome = "ok"
         /\ EdgesFrom(graph, L.calls[k].node) # {}
         /\ L.calls[k + 1].node = FirstEdgeDst(graph, L.calls[k].node)
         /\ L.calls[k + 1].input = L.calls[k].output
    /\ HasCalls =>
         L.calls[1].node = IF L.resumed
                           THEN FirstEdgeDst(graph, L.loaded.node)
                           ELSE graph.entrypoint
    /\ (HasCalls /\ LastCall.outcome = "ok") =>
         IF EdgesFrom(graph, LastCall.node) = {}
         THEN /\ Done
              /\ L.result.kind = "returned"
              /\ L.result.status = "finished"
              /\ L.result.output = LastCall.output
         ELSE /\ L.cur = FirstEdgeDst(graph, LastCall.node)
              /\ L.input = LastCall.output
              /\ Done => L.result.kind = "raised"

C13_Witness ==
    /\ ~L.resumed /\ Len(L.calls) = 2 /\ LastCall.outcome = "ok" /\ Done
    /\ Cardinality(EdgesFrom(graph, L.calls[1].node)) = 2

C13_ResumedReached ==
    /\ L.resumed /\ Len(L.calls) = 1 /\ LastCall.outcome = "ok" /\ Done
    /\ Cardinality(EdgesFrom(graph, L.loaded.node)) = 2

----------------------------------------------------------------------------
(* C14: in a fresh run that finishes, the node names of the checkpoints    *)
(* saved under its run id, in the order they were saved, are the nodes     *)
(* visited from the entrypoint along earliest edges, one checkpoint per    *)
(* executed node (for length -> summary: length, then summary), and the    *)
(* returned output is the output of the last node visited.                 *)

RECURSIVE EarliestPath(_, _, _)
\* the nodes visited from n along earliest edges, at most k of them
EarliestPath(g, n, k) ==
    IF k = 0 THEN <<>>
    ELSE IF EdgesFrom(g, n) = {} THEN <<n>>
    ELSE <<n>> \o EarliestPath(g, FirstEdgeDst(g, n), k - 1)

C14_Case ==
    /\ Done /\ hasPersistence /\ ~L.resumed
    /\ L.result.kind = "returned" /\ L.result.status = "finished"

C14_CheckpointSequence ==
    C14_Case =>
        LET cs == CheckpointsOf(db, L.rid)
            path == EarliestPath(graph, graph.entrypoint,
                                 Cardinality(DOMAIN graph.nodes) + 1)
        IN  /\ [k \in 1..Len(cs) |-> cs[k].node] = path
            /\ [k \in 1..Len(L.calls) |-> L.calls[k].node] = path
            /\ \A k \in 1..Len(cs) :
                   DOMAIN cs[k].state_json.node_outputs = {path[j] : j \in 1..k}
            /\ L.result.output = LastCall.output
            /\ LastCall.node = path[Len(path)]
            /\ graph = LinearGraph =>
                   /\ Len(cs) = 2
                   /\ cs[1].node = "length" /\ cs[2].node = "summary"

C14_Witness == C14_Case /\ graph = LinearGraph /\ Len(CheckpointsOf(db, L.rid)) = 2

----------------------------------------------------------------------------
(* C15: validate() fails if and only if no entrypoint is set, or the       *)
(* entrypoint is not a registered node, or some edge's src output type is  *)
(* not its dst input type, or the graph has more than 1000 nodes.          *)

C15_Mismatch(g) ==
    \E k \in 1..Len(g.edges) :
        g.nodes[g.edges[k].src].output_model # g.nodes[g.edges[k].dst].input_model

C15_Refused(g) ==
    \/ g.entrypoint = None
    \/ g.entrypoint \notin DOMAIN g.nodes
    \/ C15_Mismatch(g)
    \/ Cardinality(DOMAIN g.nodes) > MaxGraphNodes

C15_ValidateIff ==
    bresult.op = "validate" => (bresult.outcome # "ok" <=> C15_Refused(bgraph))

\* the same for the graphs whose entrypoint is not the empty string
C15_ValidateNamedEntry ==
    (bresult.op = "validate" /\ bgraph.entrypoint # "") =>
        (bresult.outcome # "ok" <=> C15_Refused(bgraph))

C15_EmptyNameRefused ==
    /\ bresult.op = "validate" /\ bresult.outcome = "no_entrypoint"
    /\ bgraph.entrypoint = "" /\ "" \in DOMAIN bgraph.nodes
    /\ ~C15_Mismatch(bgraph)

C15_CyclePasses ==
    /\ bresult.op = "validate" /\ bresult.outcome = "ok"
    /\ Len(bgraph.edges) = 2
    /\ bgraph.edges[1].src = bgraph.edges[2].dst
    /\ bgraph.edges[1].dst = bgraph.edges[2].src
    /\ bgraph.edges[1].src # bgraph.edges[1].dst

C15_ExactlyMaxPasses ==
    /\ bresult.op = "validate" /\ bresult.outcome = "ok"
    /\ Cardinality(DOMAIN bgraph.nodes) = MaxGraphNodes

C15_OneMoreRefused ==
    /\ bresult.op = "validate" /\ bresult.outcome = "too_large"
    /\ Cardinality(DOMAIN bgraph.nodes) = MaxGraphNodes + 1

----------------------------------------------------------------------------
(* C16: add_node with a name already registered fails with the duplicate   *)
(* name error and leaves nodes (the earlier node stays under that name),   *)
(* edges and entrypoint unchanged; with a new name it registers the node   *)
(* under that name and changes nothing else.                               *)

C16_Step == bresult'.op = "add_node"

C16_AddNode ==
    [][C16_Step =>
          LET name == bresult'.a
          IN  IF name \in DOMAIN bgraph.nodes
              THEN /\ bresult'.outcome = "ValidationError: Duplicate node name"
                   /\ bgraph' = bgraph
              ELSE /\ bresult'.outcome = "ok"
                   /\ DOMAIN bgraph'.nodes = DOMAIN bgraph.nodes \cup {name}
                   /\ bgraph'.nodes[name].output_model = bresult'.b
                   /\ \A n \in DOMAIN bgraph.nodes :
                          bgraph'.nodes[n] = bgraph.nodes[n]
                   /\ bgraph'.edges = bgraph.edges
                   /\ bgraph'.entrypoint = bgraph.entrypoint]_vars

\* a second add_node under a registered name, with another node, refused
C16_Witness ==
    /\ bresult.op = "add_node"
    /\ bresult.outcome = "ValidationError: Duplicate node name"
    /\ bgraph.nodes[bresult.a].output_model # bresult.b
    /\ Len(bgraph.edges) > 0 /\ bgraph.entrypoint # None

C16_AddedReached ==
    /\ bresult.op = "add_node" /\ bresult.outcome = "ok"
    /\ Cardinality(DOMAIN bgraph.nodes) = 2

----------------------------------------------------------------------------
(* C17: connect(src, dst) fails with the unknown-nodes error and appends   *)
(* no edge when src or dst is not registered; otherwise it appends exactly *)
(* one edge (src, dst) at the end of the edge sequence, whatever the types *)
(* of the two nodes.  Hence every edge's src and dst are registered nodes. *)

C17_Step == bresult'.op = "connect"

C17_EdgesRegistered ==
    \A k \in 1..Len(bgraph.edges) :
        /\ bgraph.edges[k].src \in DOMAIN bgraph.nodes
        /\ bgraph.edges[k].dst \in DOMAIN bgraph.nodes

C17_Connect ==
    /\ []C17_EdgesRegistered
    /\ [][C17_Step =>
            LET src == bresult'.a
                dst == bresult'.b
            IN  IF src \notin DOMAIN bgraph.nodes \/ dst \notin DOMAIN bgraph.nodes
                THEN /\ bresult'.outcome = "ValidationError: Unknown nodes in edge"
                     /\ bgraph' = bgraph
                ELSE /\ bresult'.outcome = "ok"
                     /\ bgraph'.edges = Append(bgraph.edges, Edge(src, dst))
                     /\ bgraph'.nodes = bgraph.nodes
                     /\ bgraph'.entrypoint = bgraph.entrypoint]_vars

\* an edge between nodes whose types differ has been appended
C17_Witness ==
    /\ bresult.op = "connect" /\ bresult.outcome = "ok"
    /\ Len(bgraph.edges) = 2
    /\ bgraph.edges[2] = Edge(bresult.a, bresult.b)
    /\ bgraph.nodes[bresult.a].output_model # bgraph.nodes[bresult.b].input_model

C17_RefusedReached ==
    /\ bresult.op = "connect"
    /\ bresult.outcome = "ValidationError: Unknown nodes in edge"
    /\ bresult.a \in DOMAIN bgraph.nodes /\ bresult.b \notin DOMAIN bgraph.nodes
    /\ Len(bgraph.edges) = 1

----------------------------------------------------------------------------
(* C18: set_entry(name) fails with the unknown-entrypoint error and leaves *)
(* the recorded entrypoint as it was when name is not a registered node;   *)
(* otherwise it records name as the entrypoint; nodes and edges are        *)
(* unchanged either way.                                                   *)

C18_Step == bresult'.op = "set_entry"

C18_SetEntry ==
    [][C18_Step =>
          LET name == bresult'.a
          IN  /\ bgraph'.nodes = bgraph.nodes
              /\ bgraph'.edges = bgraph.edges
              /\ IF name \notin DOMAIN bgraph.nodes
                 THEN /\ bresult'.outcome = "ValidationError: Unknown entrypoint node"
                      /\ bgraph'.entrypoint = bgraph.entrypoint
                 ELSE /\ bresult'.outcome = "ok"
                      /\ bgraph'.entrypoint = name]_vars

\* a refused set_entry after an entrypoint was recorded
C18_Witness ==
    /\ bresult.op = "set_entry"
    /\ bresult.outcome = "ValidationError: Unknown entrypoint node"
    /\ bgraph.entrypoint \in DOMAIN bgraph.nodes

C18_RecordedReached ==
    /\ bresult.op = "set_entry" /\ bresult.outcome = "ok"
    /\ bgraph.entrypoint = bresult.a /\ Len(bgraph.edges) > 0

----------------------------------------------------------------------------
(* C19: successors(n) is the dst names of the edges whose src is n and     *)
(* predecessors(n) the src names of the edges whose dst is n, in edge      *)
(* insertion order with one entry per edge, the empty list when there is   *)
(* none; neither call modifies the graph.                                  *)

RECURSIVE DstsFrom(_, _)
DstsFrom(edges, n) ==
    IF edges = <<>> THEN <<>>
    ELSE (IF Head(edges).src = n THEN <<Head(edges).dst>> ELSE <<>>)
             \o DstsFrom(Tail(edges), n)

RECURSIVE SrcsInto(_, _)
SrcsInto(edges, n) ==
    IF edges = <<>> THEN <<>>
    ELSE (IF Head(edges).dst = n THEN <<Head(edges).src>> ELSE <<>>)
             \o SrcsInto(Tail(edges), n)

C19_Step == bresult'.op \in {"successors", "predecessors"}

C19_Neighbours ==
    [][C19_Step =>
          /\ bgraph' = bgraph
          /\ bresult'.outcome = "ok"
          /\ bresult'.op = "successors" =>
                 bresult'.value = DstsFrom(bgraph.edges, bresult'.a)
          /\ bresult'.op = "predecessors" =>
                 bresult'.value = SrcsInto(bgraph.edges, bresult'.a)]_vars

\* a repeated edge gives a repeated name
C19_Witness ==
    /\ bresult.op = "predecessors"
    /\ Len(bresult.value) = 2 /\ bresult.value[1] = bresult.value[2]
    /\ bresult.value[1] # bresult.a

C19_SuccessorsReached ==
    /\ bresult.op = "successors"
    /\ Len(bresult.value) = 2 /\ bresult.value[1] # bresult.value[2]

C19_EmptyReached ==
    /\ bresult.op = "successors" /\ bresult.value = <<>>
    /\ Len(bgraph.edges) = 2

----------------------------------------------------------------------------
(* Event delivery under faults: one invocation of run() while a client     *)
(* registers handlers through hooks.on_event, some of which raise, with a  *)
(* backend whose add_event may raise.                                      *)

MaxHandlers == 2      \* handlers registered

EmitInit ==
    /\ graph \in {LinearGraph, BranchGraph}
    /\ hasPersistence \in BOOLEAN
    /\ addEventRaises \in (IF hasPersistence THEN BOOLEAN ELSE {FALSE})
    /\ db = EmptyDb
    /\ heard = <<>>
    /\ trace = <<>>
    /\ handlers = <<>>
    /\ bgraph = EmptyGraph
    /\ bresult = NoCall
    /\ inv = [i \in InvSlots |-> IdleLocals]
    /\ invCount = 0
    /\ uuidCount = 0
    /\ args = [i \in InvSlots |-> NoArgs]

\* hooks.on_event(handler)
OnEvent ==
    /\ Len(handlers) < MaxHandlers
    /\ \E does \in {"records", "raises"} :
         handlers' = Append(handlers, Handler(does, Len(inv[1].emitted)))
    /\ trace' = <<>>
    /\ UNCHANGED <<graph, hasPersistence, db, heard, addEventRaises,
                   bgraph, bresult, inv, invCount, uuidCount, args>>

EmitBegin == invCount = 0 /\ Begin(1)

EmitNext ==
    \/ EmitBegin
    \/ NodeReturn(1)
    \/ OnEvent

EmitSpec == EmitInit /\ [][EmitNext]_vars

----------------------------------------------------------------------------
(* C20: every emitted event is handed first to the backend's add_event and *)
(* then to every registered handler in registration order; what add_event  *)
(* or a handler raises is swallowed: the remaining handlers are still      *)
(* called, and the run's status, output, node_outputs, checkpoints and     *)
(* later events are what they are without the fault.                       *)

\* the events handler i was called with
HeardBy(i) ==
    LET hs == SelectSeq(heard, LAMBDA c : c.handler = i)
    IN  [k \in 1..Len(hs) |-> hs[k].event]

\* in the calls of a step: add_event is followed by the calls of all
\* handlers in registration order, and a handler is only called so
C20_DeliveryOrder ==
    \A k \in 1..Len(trace) :
        /\ trace[k].op = "add_event" =>
               /\ k + Len(handlers) <= Len(trace)
               /\ \A i \in 1..Len(handlers) :
                      trace[k + i] = Call("handler", i, trace[k].a)
        /\ trace[k].op = "handler" =>
               /\ trace[k].a \in 1..Len(handlers)
               /\ trace[k].a > 1 =>
                      trace[k - 1] = Call("handler", trace[k].a - 1, trace[k].b)
               /\ (trace[k].a = 1 /\ hasPersistence) =>
                      /\ k > 1
                      /\ trace[k - 1].op = "add_event"
                      /\ trace[k - 1].a = trace[k].b
               /\ trace[k].a < Len(handlers) =>
                      /\ k < Len(trace)
                      /\ trace[k + 1] = Call("handler", trace[k].a + 1, trace[k].b)

\* one _emit touches the backend's events, the handlers' calls and nothing
\* else of the run
C20_EmitFrame ==
    LET e == Event("node_started", L.rid, L.cur)
        w == [db |-> db, heard |-> heard, trace |-> <<>>, l |-> L]
        w2 == Emit(w, e)
    IN  /\ w2.l = [L EXCEPT !.emitted = Append(@, e)]
        /\ w2.db.runs = db.runs
        /\ w2.db.checkpoints = db.checkpoints

C20_EmitSwallows ==
    /\ C20_DeliveryOrder
    /\ \A i \in 1..Len(handlers) :
           HeardBy(i) = SubSeq(Emitted, handlers[i].since + 1, Len(Emitted))
    /\ db.events = IF hasPersistence /\ ~addEventRaises THEN Emitted ELSE <<>>
    /\ C20_EmitFrame
    /\ (Done /\ L.result.status = "finished") =>
           /\ L.result.output = LastCall.output
           /\ DOMAIN L.state.node_outputs =
                  {L.calls[k].node : k \in 1..Len(L.calls)}
           /\ Len(Emitted) =
                  2 + (IF hasPersistence THEN 3 ELSE 2) * Len(L.calls)
           /\ hasPersistence =>
                  /\ StatusOf(db, L.rid) = "finished"
                  /\ Len(CheckpointsOf(db, L.rid)) = Len(L.calls)

\* a run finished although add_event and the first handler raised every
\* time; the second handler heard every event
C20_Witness ==
    /\ Done /\ L.result.status = "finished"
    /\ hasPersistence /\ addEventRaises
    /\ StatusOf(db, L.rid) = "finished"
    /\ Len(handlers) = 2
    /\ handlers[1] = Handler("raises", 0)
    /\ handlers[2] = Handler("records", 0)
    /\ HeardBy(2) = Emitted

\* a handler registered while the run was under way
C20_LateHandlerReached ==
    /\ Done /\ Len(handlers) = 2
    /\ handlers[1].does = "raises"
    /\ handlers[2].since > 0 /\ Len(HeardBy(2)) > 0

----------------------------------------------------------------------------
(* C21: after a fresh invocation that returns, the events of the returned  *)
(* RunState are, in emission order, the events the runner emitted for the  *)
(* run, and so are the events of the state in every checkpoint it saved,   *)
(* up to the moment of the save.                                           *)

IsPrefix(s, t) == Len(s) <= Len(t) /\ s = SubSeq(t, 1, Len(s))

C21_Case == Done /\ ~L.resumed /\ L.result.kind = "returned"

C21_StateEventsHoldEmitted ==
    C21_Case =>
        /\ L.state.events = Emitted
        /\ \A k \in (L.checkpoints_at_entry + 1)..Len(db.checkpoints) :
               LET evs == ModelValidateJson(db.checkpoints[k].state_json).events
               IN  Len(evs) > 0 /\ IsPrefix(evs, Emitted)

----------------------------------------------------------------------------
(* The same run twice: first by a runner with a persistence backend, then  *)
(* by a runner constructed without one, with the same graph, the same      *)
(* arguments and nodes that do at each call what they did the first time.  *)

TwinInit ==
    /\ graph \in Graphs
    /\ hasPersistence = TRUE
    /\ db \in InitialDbs(graph, TRUE)
    /\ heard = <<>>
    /\ trace = <<>>
    /\ handlers = <<Handler("records", 0)>>
    /\ addEventRaises = FALSE
    /\ bgraph = EmptyGraph
    /\ bresult = NoCall
    /\ inv = [i \in InvSlots |-> IdleLocals]
    /\ invCount = 0
    /\ uuidCount = 0
    /\ args = [i \in InvSlots |-> NoArgs]

\* the arguments of the call of run() that slot i begins in this step
CallArgs(initial_input, resume_from_checkpoint, run_id) ==
    [initial_input |-> initial_input,
     resume_from_checkpoint |-> resume_from_checkpoint,
     run_id |-> run_id, uuid |-> UuidPool[uuidCount + 1], db |-> db,
     heard |-> Len(heard), behaviours |-> <<>>]

\* GraphRunner(persistence=p).run(graph, initial_input, run_id=run_id)
TwinBegin ==
    /\ invCount = 0
    /\ \E initial_input \in Inputs, run_id \in {None} \cup CallerRunIds :
         /\ BeginWith(1, initial_input, None, run_id)
         /\ args' = [args EXCEPT ![1] = CallArgs(initial_input, None, run_id)]

TwinNodeReturn ==
    /\ hasPersistence
    /\ \E b \in Behaviours :
         /\ NodeReturnWith(1, b)
         /\ args' = [args EXCEPT ![1].behaviours = Append(@, b)]

\* GraphRunner(): the second runner has no persistence backend
RunnerWithoutPersistence ==
    /\ hasPersistence
    /\ inv[1].pc = "done"
    /\ hasPersistence' = FALSE
    /\ UNCHANGED <<graph, db, heard, trace, handlers, addEventRaises,
                   bgraph, bresult, inv, invCount, uuidCount, args>>

\* GraphRunner().run(graph, initial_input, run_id=run_id), as the first time
TwinBeginAgain ==
    /\ ~hasPersistence
    /\ inv[2].pc = "idle"
    /\ BeginWith(2, args[1].initial_input, None, args[1].run_id)
    /\ args' = [args EXCEPT ![2] = CallArgs(args[1].initial_input, None,
                                            args[1].run_id)]

\* the k-th awaited node.run does what the k-th did the first time
TwinNodeReturnAgain ==
    /\ ~hasPersistence
    /\ LET k == Len(args[2].behaviours) + 1
       IN  \E b \in (IF k <= Len(args[1].behaviours)
                     THEN {args[1].behaviours[k]} ELSE Behaviours) :
             /\ NodeReturnWith(2, b)
             /\ args' = [args EXCEPT ![2].behaviours = Append(@, b)]

TwinNext ==
    \/ TwinBegin
    \/ TwinNodeReturn
    \/ RunnerWithoutPersistence
    \/ TwinBeginAgain
    \/ TwinNodeReturnAgain

TwinSpec == TwinInit /\ [][TwinNext]_vars

----------------------------------------------------------------------------
(* C22: a runner without a persistence backend persists nothing, and a     *)
(* fresh run by it returns the same status and output, leaves the same     *)
(* node_outputs and context, raises the same error and calls the nodes     *)
(* with the same inputs as the same run by a runner with a backend whose   *)
(* create_run accepts the run id; the listeners are delivered the same     *)
(* sequence of event types except that no checkpoint_saved is delivered.   *)

EventTypes(calls) == [k \in 1..Len(calls) |-> calls[k].event.type]

\* the handler calls made for the run of slot 1 and for the run of slot 2
HeardFirst == SubSeq(heard, args[1].heard + 1, args[2].heard)
HeardAgain == SubSeq(heard, args[2].heard + 1, Len(heard))

NotCheckpointSaved(t) == t # "checkpoint_saved"

C22_Done == ~hasPersistence /\ inv[2].pc = "done"

C22_SameOutcome ==
    /\ inv[2].result = inv[1].result
    /\ inv[2].state.node_outputs = inv[1].state.node_outputs
    /\ inv[2].state.context = inv[1].state.context
    /\ inv[2].calls = inv[1].calls

C22_PausedReached ==
    /\ C22_Done
    /\ inv[1].result.status = "waiting"
    /\ inv[2].result.status = "waiting"
    /\ Len(inv[1].calls) = 2

\* a run that a node failed, and again without
C22_FailedReached ==
    /\ C22_Done
    /\ inv[1].result.error.type = "ValueError"
    /\ inv[2].result.error.type = "ValueError"

----------------------------------------------------------------------------
(* One call of run() on a backend that holds a run with one checkpoint,    *)
(* saved through save_checkpoint by this or by another client: it is       *)
(* tagged with any node of the graph, its state carries the run id it is   *)
(* filed under or another one, and holds the node's output, the node's     *)
(* pending input, or neither.                                              *)

ForeignRunId == "r9"
ResumeCallerRunIds == {"r1", "r2"}
CheckpointShapes == {"empty", "output", "pending"}

CheckpointState(g, rid, n, shape) ==
    LET s == NewRunState(rid)
    IN  CASE shape = "output" ->
               [s EXCEPT !.node_outputs =
                   Put(@, n, ModelDump(Inst(g.nodes[n].output_model, 0)))]
          [] shape = "pending" ->
               [s EXCEPT !.context =
                   Put(@, PendingKey(n), ModelDump(Inst(g.nodes[n].input_model, 0)))]
          [] OTHER -> s

ResumeDbs(g) ==
    {SaveCheckpoint(CreateRun(EmptyDb, SeededRunId), SeededRunId, n,
                    ModelDumpJson(CheckpointState(g, rid, n, shape))) :
        <<n, rid, shape>> \in (DOMAIN g.nodes) \X {SeededRunId, ForeignRunId}
                              \X CheckpointShapes}

ResumeInit ==
    /\ graph \in {LinearGraph, GateGraph, BranchGraph}
    /\ hasPersistence = TRUE
    /\ db \in ResumeDbs(graph)
    /\ heard = <<>>
    /\ trace = <<>>
    /\ handlers = <<Handler("records", 0)>>
    /\ addEventRaises = FALSE
    /\ bgraph = EmptyGraph
    /\ bresult = NoCall
    /\ inv = [i \in InvSlots |-> IdleLocals]
    /\ invCount = 0
    /\ uuidCount = 0
    /\ args = [i \in InvSlots |-> NoArgs]

\* run(graph, initial_input, resume_from_checkpoint=..., run_id=...)
ResumeBegin ==
    /\ invCount = 0
    /\ \E initial_input \in Inputs,
          resume_from_checkpoint \in {None, UnknownRunId, SeededRunId},
          run_id \in {None} \cup ResumeCallerRunIds :
         /\ BeginWith(1, initial_input, resume_from_checkpoint, run_id)
         /\ args' = [args EXCEPT ![1] =
                        CallArgs(initial_input, resume_from_checkpoint, run_id)]

ResumeNodeReturn == NodeReturn(1)

ResumeNext ==
    \/ ResumeBegin
    \/ ResumeNodeReturn

ResumeSpec == ResumeInit /\ [][ResumeNext]_vars

----------------------------------------------------------------------------
(* C23: on resume the run id of the status update, of every event, of      *)
(* every new checkpoint and of the RunResult is the run_id of the restored *)
(* state, whatever run_id the caller passes and whatever id the checkpoint *)
(* was filed under.                                                        *)

BackendOps == {"create_run", "update_run_status", "save_checkpoint"}

C23_RestoredRunId ==
    L.resumed =>
        LET rid == LoadedState.run_id
        IN  /\ L.rid = rid
            /\ L.state.run_id = rid
            /\ \A k \in 1..Len(Emitted) : Emitted[k].run_id = rid
            /\ \A k \in 1..Len(trace) :
                   trace[k].op \in BackendOps => trace[k].a = rid
            /\ \A k \in (L.checkpoints_at_entry + 1)..Len(db.checkpoints) :
                   /\ db.checkpoints[k].run_id = rid
                   /\ ModelValidateJson(db.checkpoints[k].state_json).run_id = rid
            /\ L.loaded = LoadLatestCheckpoint(args[1].db,
                                               args[1].resume_from_checkpoint)

\* a resume that finished after saving a checkpoint, the caller having
\* passed a run id that is neither the checkpoint's nor the state's
C23_Witness ==
    /\ Done /\ L.resumed
    /\ L.result.status = "finished"
    /\ NewCheckpoints >= 1
    /\ args[1].resume_from_checkpoint = SeededRunId
    /\ args[1].run_id = "r2"
    /\ L.rid = ForeignRunId

\* the same with the state's run id equal to the caller's run_id
C23_SameIdReached ==
    /\ Done /\ L.resumed
    /\ args[1].run_id = "r1"
    /\ L.rid = "r1"
    /\ NewCheckpoints >= 1

----------------------------------------------------------------------------
(* Nodes constructed with an ErrorPolicy (core/errors.py): a -> b, with c  *)
(* registered as the node a's policy may name as its fallback.             *)

ErrorPolicy(max_retries, fallback_node, escalate_to_human) ==
    [max_retries |-> max_retries, fallback_node |-> fallback_node,
     escalate_to_human |-> escalate_to_human]

ErrorPolicies ==
    {ErrorPolicy(r, f, e) : <<r, f, e>> \in {0, 2} \X {None, "c"} \X BOOLEAN}

NodeWithPolicy(k, i, o, p) ==
    [kind |-> k, input_model |-> i, output_model |-> o, error_policy |-> p]

PolicyGraph(p) ==
    [nodes |-> ("a" :> NodeWithPolicy("node", "InModel", "InModel", p))
            @@ ("b" :> NodeWithPolicy("node", "InModel", "MidModel", p))
            @@ ("c" :> NodeWithPolicy("node", "InModel", "OutModel",
                                      ErrorPolicy(0, None, FALSE))),
     edges |-> <<Edge("a", "b")>>,
     entrypoint |-> "a"]

PolicyInit ==
    /\ graph \in {PolicyGraph(p) : p \in ErrorPolicies}
    /\ hasPersistence \in BOOLEAN
    /\ db = EmptyDb
    /\ heard = <<>>
    /\ trace = <<>>
    /\ handlers = <<Handler("records", 0)>>
    /\ addEventRaises = FALSE
    /\ bgraph = EmptyGraph
    /\ bresult = NoCall
    /\ inv = [i \in InvSlots |-> IdleLocals]
    /\ invCount = 0
    /\ uuidCount = 0
    /\ args = [i \in InvSlots |-> NoArgs]

PolicyBegin == invCount = 0 /\ Begin(1)

PolicyNodeReturn == NodeReturn(1)

PolicyNext ==
    \/ PolicyBegin
    \/ PolicyNodeReturn

PolicySpec == PolicyInit /\ [][PolicyNext]_vars

----------------------------------------------------------------------------
(* C24: every step of the loop calls its node once: the calls of node.run  *)
(* are as many as the steps that passed input validation, each call but    *)
(* the last returned a valid output and is followed by the call of the     *)
(* node's first successor, and a call that raised an ordinary error is the *)
(* last call of the invocation, which raises that error, whatever the      *)
(* max_retries, fallback_node and escalate_to_human of the ErrorPolicy.    *)

C24_NoRetryNoFallback ==
    /\ Len(L.calls) <= L.steps
    /\ L.steps <= Len(L.calls) + 1
    /\ L.executed <= Len(L.calls)
    /\ Len(L.calls) <= L.executed + 1
    /\ \A k \in 1..Len(L.calls) :
         /\ k < Len(L.calls) =>
                /\ L.calls[k].outcome = "ok"
                /\ L.calls[k + 1].node = NextNode(graph, L.calls[k].node)
         /\ L.calls[k].outcome = "raise" =>
                /\ k = Len(L.calls)
                /\ Done
                /\ L.result.kind = "raised"
                /\ L.result.error.node = L.calls[k].node
                /\ L.result.error.at = "node"
                /\ CountEv(Emitted, "node_started") = k
                /\ CountEv(Emitted, "node_failed") = 1

\* node a, whose policy asks for two retries, the fallback c and escalation,
\* raised: it was called once and neither it, c nor a gate was called after
C24_Witness ==
    /\ Done
    /\ graph.nodes["a"].error_policy = ErrorPolicy(2, "c", TRUE)
    /\ Len(L.calls) = 1
    /\ L.calls[1].node = "a"
    /\ L.calls[1].outcome = "raise"
    /\ L.executed = 1

\* the second node raised
C24_SecondReached ==
    /\ Done
    /\ Len(L.calls) = 2
    /\ L.calls[2].outcome = "raise"
    /\ graph.nodes["b"].error_policy.max_retries = 2

----------------------------------------------------------------------------
(* Two invocations of run() as tasks of one event loop: they interleave at *)
(* the awaits of node.run and share the backend and the handler registry.  *)
(* Slot 1 runs or resumes r1, slot 2 runs r2, or either draws a uuid.      *)

ConcRunIds == <<"r1", "r2">>

\* what a task passes: a valid input or none; a run id of its own, no run id,
\* or the run id to resume
ConcInputs == {Inst("InModel", 0), NoneVal}
ConcCalls(i) ==
    {<<None, ConcRunIds[i]>>, <<None, None>>, <<ConcRunIds[i], None>>}

\* what a node does in these runs
ConcBehaviours == {"ok", "pause", "error"}

ConcInit ==
    /\ graph \in {LinearGraph, BranchGraph}
    /\ hasPersistence \in BOOLEAN
    /\ db \in InitialDbs(graph, hasPersistence)
    /\ heard = <<>>
    /\ trace = <<>>
    /\ handlers = <<Handler("records", 0)>>
    /\ addEventRaises = FALSE
    /\ bgraph = EmptyGraph
    /\ bresult = NoCall
    /\ inv = [i \in InvSlots |-> IdleLocals]
    /\ invCount = 0
    /\ uuidCount = 0
    /\ args = [i \in InvSlots |-> [NoArgs EXCEPT !.db = db]]

\* task i calls run(); args keeps the backend as it was before both tasks
ConcBegin(i) ==
    /\ inv[i].pc = "idle"
    /\ \E initial_input \in ConcInputs, c \in ConcCalls(i) :
         /\ BeginWith(i, initial_input, c[1], c[2])
         /\ args' = [args EXCEPT ![i] =
                        [CallArgs(initial_input, c[1], c[2])
                            EXCEPT !.db = args[i].db]]

\* the node.run task i awaits completes
ConcNodeReturn(i) ==
    \E b \in ConcBehaviours :
        /\ NodeReturnWith(i, b)
        /\ args' = [args EXCEPT ![i].behaviours = Append(@, b)]

ConcNext ==
    \/ ConcBegin(1)
    \/ ConcBegin(2)
    \/ ConcNodeReturn(1)
    \/ ConcNodeReturn(2)

ConcSpec == ConcInit /\ [][ConcNext]_vars

RECURSIVE AloneSteps(_, _, _)
\* run() carried on alone from w through the node behaviours bs[k], ...
AloneSteps(w, bs, k) ==
    IF k > Len(bs) \/ w.l.pc # "in_node" THEN w
    ELSE LET l == w.l
             r == NodeRun(l.cur, graph.nodes[l.cur], l.input, l.state, bs[k])
         IN  AloneSteps(AfterNode([w EXCEPT !.trace = <<>>], r), bs, k + 1)

\* the call of run() with arguments a made alone on the backend a.db, its
\* nodes doing a.behaviours
Alone(a) ==
    LET w0 == [db |-> a.db, heard |-> <<>>, trace |-> <<>>,
               l |-> [IdleLocals EXCEPT
                        !.checkpoints_at_entry = Len(a.db.checkpoints)]]
    IN  AloneSteps(Run(w0, a.initial_input, a.resume_from_checkpoint,
                       a.run_id, a.uuid),
                   a.behaviours, 1)

----------------------------------------------------------------------------
(* C25: two invocations with distinct run ids that interleave at their     *)
(* node invocations over one backend and one handler registry each have    *)
(* the status, output or error, node_outputs and context, and under their  *)
(* run id the persisted status, checkpoint sequence, event log and events  *)
(* delivered to the listener, that the same call has when it runs alone.   *)

HeardOf(hs, rid) == SelectSeq(hs, LAMBDA h : h.event.run_id = rid)

C25_AsAlone(i) ==
    LET s == Alone(args[i])
        rid == inv[i].rid
    IN  /\ inv[i].pc = s.l.pc
        /\ inv[i].rid = s.l.rid
        /\ inv[i].result = s.l.result
        /\ inv[i].state = s.l.state
        /\ inv[i].calls = s.l.calls
        /\ inv[i].emitted = s.l.emitted
        /\ StatusOf(db, rid) = StatusOf(s.db, rid)
        /\ CheckpointsOf(db, rid) = CheckpointsOf(s.db, rid)
        /\ GetEvents(db, rid) = GetEvents(s.db, rid)
        /\ HeardOf(heard, rid) = HeardOf(s.heard, rid)

C25_Independent ==
    \A i \in InvSlots : inv[i].pc # "idle" => C25_AsAlone(i)

\* both finished after each saved a checkpoint between two of the other's
C25_Witness ==
    /\ inv[1].pc = "done" /\ inv[2].pc = "done"
    /\ inv[1].result.status = "finished"
    /\ inv[2].result.status = "finished"
    /\ \E j, k, m, n \in 1..Len(db.checkpoints) :
           /\ j < k /\ k < m /\ m < n
           /\ db.checkpoints[j].run_id = inv[1].rid
           /\ db.checkpoints[k].run_id = inv[2].rid
           /\ db.checkpoints[m].run_id = inv[1].rid
           /\ db.checkpoints[n].run_id = inv[2].rid

\* slot 1 resumed r1 after slot 2 had saved a checkpoint of r2
C25_ResumeReached ==
    /\ inv[1].resumed
    /\ inv[1].pc = "done"
    /\ inv[1].checkpoints_at_entry >= 2
    /\ inv[2].rid = "r2"

----------------------------------------------------------------------------
(* C26: the checkpoints are append-only: every step leaves the rows it     *)
(* found in place and adds its own after them.  After a step that saved a  *)
(* checkpoint for a run id, load_latest_checkpoint of that id returns the  *)
(* node and state just saved, and for every other run id what it returned  *)
(* before the step; it returns none for a run id without a checkpoint.     *)

C26_RunIds == {"r1", "r2", "u1", "u2", UnknownRunId}

SavedFor(calls, rid) ==
    SelectSeq(calls, LAMBDA c : c.op = "save_checkpoint" /\ c.a = rid)

C26_Absent ==
    \A rid \in C26_RunIds :
        (\A k \in 1..Len(db.checkpoints) : db.checkpoints[k].run_id # rid)
            <=> ~LoadLatestCheckpoint(db, rid).found

C26_Step ==
    /\ IsPrefix(db.checkpoints, db'.checkpoints)
    /\ \A rid \in C26_RunIds :
         IF Len(SavedFor(trace', rid)) = 0
         THEN LoadLatestCheckpoint(db', rid) = LoadLatestCheckpoint(db, rid)
         ELSE LET last == db'.checkpoints[Len(db'.checkpoints)]
                  saved == SavedFor(trace', rid)
              IN  /\ Len(db'.checkpoints) > Len(db.checkpoints)
                  /\ last.run_id = rid
                  /\ last.node = saved[Len(saved)].b
                  /\ LoadLatestCheckpoint(db', rid) =
                         [found |-> TRUE, node |-> last.node,
                          state_json |-> last.state_json]

C26_LatestCheckpoint == []C26_Absent /\ [][C26_Step]_vars

\* r1 and r2 each have two checkpoints, r2's are the last rows, and the
\* latest of r1 is its own second one
C26_Witness ==
    /\ Len(CheckpointsOf(db, "r1")) >= 2
    /\ Len(CheckpointsOf(db, "r2")) >= 2
    /\ db.checkpoints[Len(db.checkpoints)].run_id = "r2"
    /\ LoadLatestCheckpoint(db, "r1").node = "summary"
    /\ CheckpointsOf(db, "r1")[1].node # "summary"
    /\ ~LoadLatestCheckpoint(db, UnknownRunId).found

----------------------------------------------------------------------------
(* C27: a RunState the runner holds, and so every one it checkpoints,      *)
(* comes back from its JSON form as it was: model_validate_json of         *)
(* model_dump_json is the state itself, the state restored from a          *)
(* checkpoint just saved is the state of the invocation, and a resumed     *)
(* invocation starts from the state that was saved.                        *)

SavedInStep == \E k \in 1..Len(trace) : trace[k].op = "save_checkpoint"

----------------------------------------------------------------------------
(* C28: with a persistence backend the events of an invocation are         *)
(* run_started, then per call of node.run, in call order, node_started,    *)
(* and after a valid output node_finished and checkpoint_saved, all before *)
(* the node_started of the next call; nothing but node_started for a call  *)
(* in flight or with an invalid output; run_finished last.  An input that  *)
(* fails validation stops the step before node_started and before the      *)
(* call.  The checkpoint is saved between the delivery of node_finished    *)
(* and that of checkpoint_saved and holds the node's output.  At most one  *)
(* call of node.run is in flight.                                          *)

EvKey(e) == <<e.type, e.node>>

CallEvents(c) ==
    CASE c.outcome = "ok"    -> << <<"node_started", c.node>>,
                                   <<"node_finished", c.node>>,
                                   <<"checkpoint_saved", c.node>> >>
      [] c.outcome = "pause" -> << <<"node_started", c.node>>,
                                   <<"human_gate_pending", c.node>> >>
      [] c.outcome = "raise" -> << <<"node_started", c.node>>,
                                   <<"node_failed", c.node>> >>
      [] OTHER               -> << <<"node_started", c.node>> >>

RECURSIVE CallsEvents(_, _)
CallsEvents(calls, k) ==
    IF k > Len(calls) THEN <<>>
    ELSE CallEvents(calls[k]) \o CallsEvents(calls, k + 1)

C28_EventOrder ==
    Len(Emitted) > 0 =>
        [k \in 1..Len(Emitted) |-> EvKey(Emitted[k])] =
            << <<"run_started", None>> >> \o CallsEvents(L.calls, 1)
            \o (IF Done /\ L.result.status = "finished"
                THEN << <<"run_finished", None>> >> ELSE <<>>)

C28_SaveOrder ==
    \A j \in 1..Len(trace) :
        (trace[j].op = "add_event" /\ trace[j].a = "node_finished") =>
            LET n == trace[j].b
                saved == CheckpointsOf(db, L.rid)
            IN  /\ j + 5 <= Len(trace)
                /\ trace[j + 1] = Call("handler", 1, "node_finished")
                /\ trace[j + 2] = Call("save_checkpoint", L.rid, n)
                /\ trace[j + 3] = Call("add_event", "checkpoint_saved", n)
                /\ trace[j + 4] = Call("handler", 1, "checkpoint_saved")
                /\ trace[j + 5] \in
                       {Call("add_event", "node_started", NextNode(graph, n)),
                        Call("add_event", "run_finished", None)}
                /\ n \in DOMAIN ModelValidateJson(
                                   saved[Len(saved)].state_json).node_outputs

C28_OneInFlight ==
    /\ Len(L.calls) - L.executed \in {0, 1}
    /\ (L.pc = "in_node") <=> (Len(L.calls) = L.executed + 1)
    /\ (L.pc = "in_node") <=> (HasCalls /\ LastCall.outcome = "running")
    /\ \A k \in 1..Len(L.calls) :
           L.calls[k].outcome = "running" => k = Len(L.calls)
    /\ (Done /\ L.result.error.at = "input") =>
           /\ L.steps = Len(L.calls) + 1
           /\ L.result.error.node = L.cur
           /\ (HasCalls => LastCall.outcome = "ok")

C28_StepOrder == C28_EventOrder /\ C28_SaveOrder /\ C28_OneInFlight

\* the first node has been checkpointed and the second is in flight
C28_Witness ==
    /\ L.pc = "in_node"
    /\ Len(L.calls) = 2
    /\ \E j \in 1..Len(trace) : trace[j].op = "save_checkpoint"
    /\ Emitted[Len(Emitted)].type = "node_started"
    /\ Emitted[Len(Emitted) - 1].type = "checkpoint_saved"

\* the input of the first step did not validate: run_started and no more
C28_InputRefusedReached ==
    /\ Done /\ L.result.error.at = "input"
    /\ Len(L.calls) = 0
    /\ Len(Emitted) = 1

----------------------------------------------------------------------------
(* C29: a resume from a checkpoint whose node has no successors calls no   *)
(* node.  In one step it sets the persisted status to running, emits       *)
(* run_started, emits run_finished, sets the status to finished and        *)
(* returns finished with no output, the state being the restored one, and  *)
(* it saves no checkpoint.                                                 *)

C29_Case ==
    /\ L.resumed
    /\ Len(Successors(graph, L.loaded.node)) = 0

C29_ResumeAtEnd ==
    C29_Case =>
        /\ Done
        /\ L.result = [kind |-> "returned", status |-> "finished",
                       output |-> NoneVal, error |-> NoError]
        /\ L.calls = <<>>
        /\ L.executed = 0
        /\ Emitted = <<Event("run_started", L.rid, None),
                       Event("run_finished", L.rid, None)>>
        /\ trace = <<Call("update_run_status", L.rid, "running"),
                     Call("add_event", "run_started", None),
                     Call("handler", 1, "run_started"),
                     Call("add_event", "run_finished", None),
                     Call("handler", 1, "run_finished"),
                     Call("update_run_status", L.rid, "finished")>>
        /\ StatusOf(db, L.rid) =
               IF L.rid \in DOMAIN args[1].db.runs THEN "finished" ELSE None
        /\ L.state = LoadedState
        /\ NewCheckpoints = 0
        /\ db.checkpoints = args[1].db.checkpoints

\* the checkpoint of the last node of the chain, holding its output, resumed
C29_Witness ==
    /\ C29_Case
    /\ graph = LinearGraph
    /\ L.loaded.node = "summary"
    /\ "summary" \in DOMAIN L.state.node_outputs
    /\ StatusOf(db, L.rid) = "finished"
    /\ StatusOf(args[1].db, L.rid) = "running"

----------------------------------------------------------------------------
(* A runner on a backend that starts empty: every row of the backend was   *)
(* written by an invocation of run().                                      *)

OwnInit ==
    /\ graph \in Graphs
    /\ hasPersistence = TRUE
    /\ db = EmptyDb
    /\ heard = <<>>
    /\ trace = <<>>
    /\ handlers = <<Handler("records", 0)>>
    /\ addEventRaises = FALSE
    /\ bgraph = EmptyGraph
    /\ bresult = NoCall
    /\ inv = [i \in InvSlots |-> IdleLocals]
    /\ invCount = 0
    /\ uuidCount = 0
    /\ args = [i \in InvSlots |-> NoArgs]

OwnNext ==
    \/ Begin(1)
    \/ NodeReturn(1)

OwnSpec == OwnInit /\ [][OwnNext]_vars

----------------------------------------------------------------------------
(* C30: every checkpoint the runner saves is filed under the run id of its *)
(* state and tagged with the node whose call just completed; its state     *)
(* holds that node's output under node_outputs after a valid output, and   *)
(* the node's input under context["pending_input:<node>"] after a pause.   *)
(* So a resume from a checkpoint the runner saved takes the input of the   *)
(* next node from one of the two and never from the caller's               *)
(* initial_input.                                                          *)

C30_Tagged(c) ==
    LET S == ModelValidateJson(c.state_json)
    IN  /\ c.node \in DOMAIN graph.nodes
        /\ \/ c.node \in DOMAIN S.node_outputs
           \/ PendingKey(c.node) \in DOMAIN S.context
        /\ S.run_id = c.run_id

C30_JustSaved ==
    SavedInStep =>
        LET c == db.checkpoints[Len(db.checkpoints)]
            S == ModelValidateJson(c.state_json)
            call == L.calls[L.executed]
        IN  /\ c.node = call.node
            /\ c.run_id = L.rid
            /\ call.outcome \in {"ok", "pause"}
            /\ call.outcome = "ok" =>
                   S.node_outputs[c.node] = ModelDump(call.output)
            /\ call.outcome = "pause" =>
                   S.context[PendingKey(c.node)] = ModelDump(call.input)

C30_NoFallback ==
    L.resumed =>
        LET c == L.loaded.node
            S == LoadedState
        IN  /\ \/ c \in DOMAIN S.node_outputs
               \/ PendingKey(c) \in DOMAIN S.context
            /\ L.entry_input =
                   IF c \in DOMAIN S.node_outputs THEN S.node_outputs[c]
                   ELSE S.context[PendingKey(c)]

C30_RunnerCheckpoints ==
    /\ \A k \in 1..Len(db.checkpoints) : C30_Tagged(db.checkpoints[k])
    /\ C30_JustSaved
    /\ C30_NoFallback

\* a resume from the checkpoint of a pause at the first node, the caller
\* passing another input than the pending one
C30_Witness ==
    /\ L.resumed /\ HasCalls
    /\ L.loaded.node \notin DOMAIN LoadedState.node_outputs
    /\ PendingKey(L.loaded.node) \in DOMAIN LoadedState.context
    /\ L.initial_input # L.entry_input

\* a resume from the checkpoint of a completed node
C30_OutputReached ==
    /\ L.resumed /\ HasCalls
    /\ L.loaded.node \in DOMAIN LoadedState.node_outputs
    /\ L.initial_input = NoneVal

----------------------------------------------------------------------------
(* C31: when a run whose last event was the pause at node G is resumed,    *)
(* the first node called is G's first successor and its input is the value *)
(* stashed under pending_input:G, the input G had when it paused.          *)

\* the events of the run in the backend before this invocation
EventsBefore ==
    LET evs == GetEvents(db, L.rid)
    IN  SubSeq(evs, 1, Len(evs) - Len(Emitted))

C31_Case ==
    /\ hasPersistence /\ L.resumed /\ HasCalls
    /\ Len(EventsBefore) > 0
    /\ EventsBefore[Len(EventsBefore)] =
           Event("human_gate_pending", L.rid, L.loaded.node)

C31_PendingInput ==
    C31_Case =>
        LET G == L.loaded.node
            pending == LoadedState.context[PendingKey(G)]
        IN  /\ L.calls[1].node = NextNode(graph, G)
            /\ ModelDump(L.calls[1].input).val = pending.val

\* the same where G has no output recorded from an earlier visit
C31_NoEarlierOutput ==
    (C31_Case /\ L.loaded.node \notin DOMAIN LoadedState.node_outputs) =>
        C31_PendingInput

----------------------------------------------------------------------------
(* C32: with one invocation at a time, whenever the persisted status of a  *)
(* run is waiting its latest checkpoint is tagged with the node of the     *)
(* run's last human_gate_pending event and its state holds                 *)
(* pending_input:<node>; and whenever the run's event log has a            *)
(* checkpoint_saved for n with no node_finished, node_failed or            *)
(* human_gate_pending after it, the latest checkpoint is tagged n and its  *)
(* state holds node_outputs[n].                                            *)

LastIndexOf(evs, types) ==
    LET K == {k \in 1..Len(evs) : evs[k].type \in types}
    IN  IF K = {} THEN 0 ELSE CHOOSE k \in K : \A j \in K : j <= k

StepEnds == {"node_finished", "node_failed", "human_gate_pending"}

C32_Waiting(rid) ==
    StatusOf(db, rid) = "waiting" =>
        LET evs == GetEvents(db, rid)
            p == LastIndexOf(evs, {"human_gate_pending"})
            latest == LoadLatestCheckpoint(db, rid)
        IN  /\ p > 0
            /\ latest.found
            /\ latest.node = evs[p].node
            /\ PendingKey(latest.node) \in
                   DOMAIN ModelValidateJson(latest.state_json).context
            /\ LastIndexOf(evs, StepEnds) = p

C32_Saved(rid) ==
    LET evs == GetEvents(db, rid)
        s == LastIndexOf(evs, {"checkpoint_saved"})
        latest == LoadLatestCheckpoint(db, rid)
    IN  (s > 0 /\ LastIndexOf(evs, StepEnds) < s) =>
            /\ latest.found
            /\ latest.node = evs[s].node
            /\ latest.node \in
                   DOMAIN ModelValidateJson(latest.state_json).node_outputs

C32_LatestCheckpoint ==
    \A rid \in DOMAIN db.runs : C32_Waiting(rid) /\ C32_Saved(rid)

\* a run that completed a node and paused at the next one is waiting
C32_Witness ==
    /\ Done
    /\ StatusOf(db, L.rid) = "waiting"
    /\ Len(CheckpointsOf(db, L.rid)) >= 2
    /\ LoadLatestCheckpoint(db, L.rid).node = LastCall.node

\* checkpoint_saved was delivered for the first node, the second is in flight
C32_SavedReached ==
    /\ L.pc = "in_node"
    /\ Len(L.calls) = 2
    /\ LoadLatestCheckpoint(db, L.rid).node = L.calls[1].node
    /\ Emitted[Len(Emitted) - 1].type = "checkpoint_saved"

----------------------------------------------------------------------------
(* C33: the persisted status of every run is running, waiting, failed or   *)
(* finished and changes only by a call the runner makes.  create_run and   *)
(* update_run_status "running" are the first backend call of a fresh and   *)
(* of a resumed invocation.  "waiting" follows the delivery of             *)
(* human_gate_pending and the save of the checkpoint, "failed" the         *)
(* delivery of node_failed, "finished" the delivery of run_finished; each  *)
(* of the three is the last call of the invocation, which is over.         *)

Statuses == {"running", "waiting", "failed", "finished"}

C33_Call(j) ==
    LET s == trace[j].b
        last == j = Len(trace) /\ Done
    IN  /\ trace[j].op = "create_run" =>
               /\ j = 1 /\ ~L.resumed /\ L.executed = 0
               /\ trace[j].a = L.rid
        /\ trace[j].op = "update_run_status" =>
               /\ s \in Statuses
               /\ trace[j].a = L.rid
               /\ s = "running" => j = 1 /\ L.resumed /\ L.executed = 0
               /\ s = "waiting" =>
                      /\ last /\ j > 2
                      /\ L.result.status = "waiting"
                      /\ trace[j - 1] = Call("save_checkpoint", L.rid, LastCall.node)
                      /\ trace[j - 2] = Call("handler", 1, "human_gate_pending")
               /\ s = "failed" =>
                      /\ last /\ j > 2
                      /\ L.result.kind = "raised"
                      /\ trace[j - 1] = Call("handler", 1, "node_failed")
                      /\ trace[j - 2] = Call("add_event", "node_failed", LastCall.node)
               /\ s = "finished" =>
                      /\ last /\ j > 2
                      /\ L.result.status = "finished"
                      /\ trace[j - 1] = Call("handler", 1, "run_finished")
                      /\ trace[j - 2] = Call("add_event", "run_finished", None)

C33_Inv ==
    /\ \A rid \in DOMAIN db.runs : db.runs[rid] \in Statuses
    /\ \A j \in 1..Len(trace) : C33_Call(j)

\* a status that differs after a step was written by a call of that step
C33_Step ==
    \A rid \in (DOMAIN db.runs) \cup (DOMAIN db'.runs) :
        StatusOf(db', rid) # StatusOf(db, rid) =>
            LET j == LastIndexOf([k \in 1..Len(trace') |->
                                     [type |-> IF /\ trace'[k].op \in {"create_run", "update_run_status"}
                                                  /\ trace'[k].a = rid
                                               THEN trace'[k].op ELSE "other"]],
                                 {"create_run", "update_run_status"})
            IN  /\ j > 0
                /\ StatusOf(db', rid) =
                       IF trace'[j].op = "create_run" THEN "running"
                       ELSE trace'[j].b

C33_StatusLifecycle == []C33_Inv /\ [][C33_Step]_vars

\* a waiting run was resumed and finished: running, then finished
C33_Witness ==
    /\ Done /\ L.resumed
    /\ EventsBefore[Len(EventsBefore)].type = "human_gate_pending"
    /\ L.result.status = "finished"
    /\ StatusOf(db, L.rid) = "finished"
    /\ L.executed >= 1

\* a run failed at its second node
C33_FailedReached ==
    /\ Done /\ StatusOf(db, L.rid) = "failed"
    /\ Len(L.calls) = 2

----------------------------------------------------------------------------
(* C34: when the graph fails validate(), a call of run(), fresh or resume, *)
(* raises the graph error and does nothing else: the backend holds what it *)
(* held, no backend call and no handler call was made, no event was        *)
(* emitted, no checkpoint was loaded and no node was invoked.  No step of  *)
(* run() changes the graph.                                                *)

C34_Refused ==
    (GraphValidate(graph) # "ok" /\ invCount' # invCount) =>
        /\ L'.pc = "done"
        /\ L'.result.kind = "raised"
        /\ L'.result.error =
               Error("GraphValidationError", None, GraphValidate(graph))
        /\ db' = db
        /\ heard' = heard
        /\ trace' = <<>>
        /\ L'.emitted = <<>>
        /\ L'.calls = <<>>
        /\ L'.executed = 0
        /\ L'.loaded = IdleLocals.loaded
        /\ ~L'.resumed

C34_GraphKept == graph' = graph

C34_ValidateFirst == [][C34_Refused /\ C34_GraphKept]_vars

\* two calls of run() were refused for the graph while the backend held a
\* run that a resume could name
C34_Witness ==
    /\ Done /\ hasPersistence
    /\ GraphValidate(graph) # "ok"
    /\ L.result.kind = "raised"
    /\ L.result.error.type = "GraphValidationError"
    /\ SeededRunId \in DOMAIN db.runs
    /\ invCount = 2

----------------------------------------------------------------------------
(* One invocation of GraphRunner() without a backend, called with and      *)
(* without a resume id                                                     *)

BareInit ==
    /\ graph \in {LinearGraph, GateGraph, BranchGraph}
    /\ hasPersistence = FALSE
    /\ db = EmptyDb
    /\ heard = <<>>
    /\ trace = <<>>
    /\ handlers = <<Handler("records", 0)>>
    /\ addEventRaises = FALSE
    /\ bgraph = EmptyGraph
    /\ bresult = NoCall
    /\ inv = [i \in InvSlots |-> IdleLocals]
    /\ invCount = 0
    /\ uuidCount = 0
    /\ args = [i \in InvSlots |-> NoArgs]

\* run(graph, initial_input, resume_from_checkpoint=..., run_id=...)
BareBegin ==
    /\ invCount = 0
    /\ \E initial_input \in Inputs,
          resume_from_checkpoint \in {None, UnknownRunId, SeededRunId},
          run_id \in {None} \cup ResumeCallerRunIds :
         /\ BeginWith(1, initial_input, resume_from_checkpoint, run_id)
         /\ args' = [args EXCEPT ![1] =
                        CallArgs(initial_input, resume_from_checkpoint, run_id)]

BareNodeReturn == NodeReturn(1)

BareNext ==
    \/ BareBegin
    \/ BareNodeReturn

BareSpec == BareInit /\ [][BareNext]_vars

----------------------------------------------------------------------------
(* C35: a call of run() with a resume id on a runner without a backend     *)
(* looks up no checkpoint and raises no no-checkpoint error.  It is the    *)
(* fresh run of the same call: it starts at the entrypoint with the        *)
(* caller's input, under the caller's run_id or else a generated id, and   *)
(* the resume id names the run only where the caller passed it as run_id.  *)

C35_Case ==
    /\ ~hasPersistence
    /\ inv[1].pc # "idle"
    /\ args[1].resume_from_checkpoint # None

\* the same call without the resume id, made when this one was made
C35_FreshCall ==
    LET a == args[1]
        w0 == [db |-> a.db, heard |-> SubSeq(heard, 1, a.heard),
               trace |-> <<>>,
               l |-> [IdleLocals EXCEPT
                        !.checkpoints_at_entry = Len(a.db.checkpoints)]]
    IN  Run(w0, a.initial_input, None, a.run_id, a.uuid)

C35_FreshWithoutBackend ==
    C35_Case =>
        LET a == args[1]
        IN  /\ ~L.resumed
            /\ L.loaded = IdleLocals.loaded
            /\ L.result.error.at # "no_checkpoint"
            /\ L.rid = (IF a.run_id # None THEN a.run_id ELSE a.uuid)
            /\ a.run_id # a.resume_from_checkpoint =>
                   L.rid # a.resume_from_checkpoint
            /\ Emitted[1] = Event("run_started", L.rid, None)
            /\ HasCalls =>
                   /\ L.calls[1].node = graph.entrypoint
                   /\ L.calls[1].input =
                          ValidateToModel(graph.nodes[graph.entrypoint].input_model,
                                          a.initial_input).value
            /\ ~HasCalls =>
                   /\ ~ValidateToModel(graph.nodes[graph.entrypoint].input_model,
                                       a.initial_input).ok
                   /\ L.result.error =
                          Error("PydanticValidationError", graph.entrypoint, "input")
            /\ L.executed = 0 =>
                   /\ L = C35_FreshCall.l
                   /\ heard = C35_FreshCall.heard
                   /\ db = C35_FreshCall.db

\* a resume of an id was asked of a runner without a backend, with a run id
\* of the caller's, and the run finished
C35_Witness ==
    /\ C35_Case /\ Done
    /\ args[1].run_id = "r2"
    /\ args[1].resume_from_checkpoint = SeededRunId
    /\ L.result.status = "finished"
    /\ L.rid = "r2"

\* the same without a run id: the run has a generated id
C35_GeneratedReached ==
    /\ C35_Case /\ Done
    /\ args[1].run_id = None
    /\ L.rid = args[1].uuid
    /\ L.result.status = "finished"

----------------------------------------------------------------------------
(* The step loop run to its iteration cap on a backend: a fresh run on the *)
(* cycle a -> b -> a with nodes that always succeed, and then a resume of  *)
(* that run.  Of the backend's checkpoints and events only the latest rows *)
(* are kept, which are the rows load_latest_checkpoint can return.         *)

KeepLatest(d) ==
    [d EXCEPT !.checkpoints = IF Len(@) <= 1 THEN @ ELSE <<@[Len(@)]>>,
              !.events = IF Len(@) <= 2 THEN @ ELSE SubSeq(@, Len(@) - 1, Len(@))]

CapDbInit ==
    /\ graph = CycleGraph
    /\ hasPersistence = TRUE
    /\ db = EmptyDb
    /\ heard = <<>>
    /\ trace = <<>>
    /\ handlers = <<>>
    /\ addEventRaises = FALSE
    /\ bgraph = EmptyGraph
    /\ bresult = NoCall
    /\ inv = [i \in InvSlots |-> IdleLocals]
    /\ invCount = 0
    /\ uuidCount = 0
    /\ args = [i \in InvSlots |-> NoArgs]

\* run(graph, initial_input, run_id=...)
CapDbBegin ==
    /\ invCount = 0
    /\ \E initial_input \in {Inst("InModel", 0), Dict({"text", "length"}, 0)},
          run_id \in {None} \cup CallerRunIds :
         /\ BeginWith(1, initial_input, None, run_id)
         /\ args' = [args EXCEPT ![1] = CallArgs(initial_input, None, run_id)]

\* run(graph, None, resume_from_checkpoint=rid) after the run hit the cap
CapDbResume ==
    /\ invCount = 1
    /\ inv[1].result.error.at = "iteration_cap"
    /\ BeginWith(1, NoneVal, inv[1].rid, None)
    /\ args' = [args EXCEPT ![1] = CallArgs(NoneVal, inv[1].rid, None)]

CapDbNodeReturn ==
    /\ inv[1].pc = "in_node"
    /\ \E b \in Succeeding :
         LET l == inv[1]
             r == NodeRun(l.cur, graph.nodes[l.cur], l.input, l.state, b)
             w == AfterNode([db |-> db, heard |-> heard, trace |-> <<>>,
                             l |-> l], r)
         IN  /\ db' = KeepLatest(w.db)
             /\ heard' = w.heard
             /\ trace' = w.trace
             /\ inv' = [inv EXCEPT ![1] = KeepRecent(w.l)]
    /\ UNCHANGED <<graph, hasPersistence, handlers, addEventRaises,
                   bgraph, bresult, invCount, uuidCount, args>>

CapDbNext ==
    \/ CapDbBegin
    \/ CapDbResume
    \/ CapDbNodeReturn

CapDbSpec == CapDbInit /\ [][CapDbNext]_vars

----------------------------------------------------------------------------
(* C36: when run() raises the iteration-cap error the persisted status of  *)
(* the run is running, the last backend call is the checkpoint_saved event *)
(* of the last executed node and no status was written, no step of the     *)
(* invocation persisted a node_failed or run_finished event, and the       *)
(* latest checkpoint of the run is the one saved when the last executed    *)
(* node completed.  Each invocation counts its steps from zero: a resume   *)
(* of the run is refused its 10001st step, not an earlier one.             *)

C36_Case == Done /\ L.result.error.at = "iteration_cap"

C36_CapLeavesRunning ==
    /\ \A j \in 1..Len(trace) :
           trace[j].op = "add_event" =>
               trace[j].a \notin {"node_failed", "run_finished"}
    /\ inv[1].pc = "in_node" => L.steps = L.executed + 1
    /\ L.executed <= IterationCap
    /\ (Done /\ L.executed > 0) => C36_Case
    /\ C36_Case =>
           /\ L.result.kind = "raised"
           /\ L.executed = IterationCap
           /\ L.steps = IterationCap + 1
           /\ trace[Len(trace)] =
                  Call("add_event", "checkpoint_saved", LastCall.node)
           /\ \A j \in 1..Len(trace) : trace[j].op # "update_run_status"
           /\ StatusOf(db, L.rid) = "running"
           /\ LastCall.outcome = "ok"
           /\ LoadLatestCheckpoint(db, L.rid) =
                  [found |-> TRUE, node |-> LastCall.node,
                   state_json |-> ModelDumpJson(L.state)]
           /\ L.state.node_outputs[LastCall.node] = ModelDump(LastCall.output)
           /\ db.events[Len(db.events)] =
                  Event("checkpoint_saved", L.rid, LastCall.node)
    /\ (L.resumed /\ HasCalls /\ L.executed = 0) =>
           /\ L.steps = 1
           /\ L.calls[1].node = NextNode(graph, L.loaded.node)

\* the fresh run hit the cap
C36_Witness == C36_Case /\ ~L.resumed /\ invCount = 1

\* the resume of that run executed 10000 further nodes and hit the cap
C36_ResumeReached ==
    C36_Case /\ L.resumed /\ invCount = 2 /\ L.executed = IterationCap

----------------------------------------------------------------------------
(* A runner on a backend that starts empty, the arguments of its latest    *)
(* call of run() recorded: a run, and then a resume of a run it left.      *)

RetryBegin ==
    \E initial_input \in Inputs,
       resume_from_checkpoint \in {None} \cup DOMAIN db.runs,
       run_id \in {None} \cup CallerRunIds :
         /\ BeginWith(1, initial_input, resume_from_checkpoint, run_id)
         /\ args' = [args EXCEPT ![1] =
                        CallArgs(initial_input, resume_from_checkpoint, run_id)]

RetryNext ==
    \/ RetryBegin
    \/ NodeReturn(1)

RetrySpec == OwnInit /\ [][RetryNext]_vars

----------------------------------------------------------------------------
(* C37: a resume of a run whose status is failed and whose latest          *)
(* checkpoint is that of node P, the run having failed at the node F after *)
(* P, writes the status running, emits run_started and calls F with the    *)
(* output stored for P.  A resume of a failed run that has no checkpoint,  *)
(* the run having failed at its entrypoint, raises the no-checkpoint       *)
(* error, writes nothing and emits nothing: the status stays failed.       *)

\* the latest call of run() asked to resume a run whose status was failed
C37_Case ==
    /\ inv[1].pc # "idle"
    /\ args[1].resume_from_checkpoint # None
    /\ StatusOf(args[1].db, args[1].resume_from_checkpoint) = "failed"

C37_Checkpointed == CheckpointsOf(args[1].db, args[1].resume_from_checkpoint) # <<>>

\* the latest checkpoint of the run holds the output of the node it is tagged
\* with: that node completed
C37_Completed ==
    LET cp == LoadLatestCheckpoint(args[1].db, args[1].resume_from_checkpoint)
    IN  cp.node \in DOMAIN ModelValidateJson(cp.state_json).node_outputs

C37_Retry ==
    (C37_Case /\ C37_Checkpointed /\ C37_Completed) =>
        LET a == args[1]
            rid == a.resume_from_checkpoint
            evs == GetEvents(a.db, rid)
            F == evs[Len(evs)].node
            cp == LoadLatestCheckpoint(a.db, rid)
            P == cp.node
            stored == ModelValidateJson(cp.state_json).node_outputs
        IN  /\ evs[Len(evs)].type = "node_failed"
            /\ F = NextNode(graph, P)
            /\ L.resumed /\ L.rid = rid
            /\ Emitted[1] = Event("run_started", rid, None)
            /\ HasCalls
            /\ L.calls[1].node = F
            /\ ModelDump(L.calls[1].input).val = stored[P].val
            /\ L.executed = 0 =>
                   /\ trace[1] = Call("update_run_status", rid, "running")
                   /\ StatusOf(db, rid) = "running"

C37_NoCheckpoint ==
    (C37_Case /\ ~C37_Checkpointed) =>
        LET a == args[1]
            rid == a.resume_from_checkpoint
            evs == GetEvents(a.db, rid)
        IN  /\ EventTypes([k \in 1..Len(evs) |-> [event |-> evs[k]]]) =
                   <<"run_started", "node_started", "node_failed">>
            /\ evs[3].node = graph.entrypoint
            /\ Done
            /\ L.result.kind = "raised"
            /\ L.result.error = Error("RuntimeError", None, "no_checkpoint")
            /\ db = a.db
            /\ Len(heard) = a.heard
            /\ trace = <<>>
            /\ StatusOf(db, rid) = "failed"

C37_ResumeFailed == C37_Retry /\ C37_NoCheckpoint

\* a failed run was resumed and its failed node, called again, completed
C37_Witness ==
    /\ C37_Case /\ C37_Checkpointed /\ C37_Completed
    /\ L.executed >= 1
    /\ L.calls[1].outcome = "ok"

\* a run that failed at its entrypoint was asked to resume
C37_EntrypointReached == C37_Case /\ ~C37_Checkpointed /\ Done

----------------------------------------------------------------------------
(* Two resumes of one waiting run as tasks of one event loop.  The backend *)
(* holds the run as the pause path leaves it: status waiting and a         *)
(* checkpoint tagged with the paused node, the node's input stashed under  *)
(* its pending key.  A HumanGateNode never pauses; any other node may.     *)

WaitingDbs(g) ==
    {SaveCheckpoint(UpdateRunStatus(CreateRun(EmptyDb, SeededRunId),
                                    SeededRunId, "waiting"),
                    SeededRunId, n,
                    ModelDumpJson(CheckpointState(g, SeededRunId, n, "pending"))) :
        n \in {m \in DOMAIN g.nodes : g.nodes[m].kind # "human_gate"}}

RaceInit ==
    /\ graph \in {GateGraph, BranchGraph, CycleGraph}
    /\ hasPersistence = TRUE
    /\ db \in WaitingDbs(graph)
    /\ heard = <<>>
    /\ trace = <<>>
    /\ handlers = <<Handler("records", 0)>>
    /\ addEventRaises = FALSE
    /\ bgraph = EmptyGraph
    /\ bresult = NoCall
    /\ inv = [i \in InvSlots |-> IdleLocals]
    /\ invCount = 0
    /\ uuidCount = 0
    /\ args = [i \in InvSlots |-> NoArgs]

\* task i calls run(graph, None, resume_from_checkpoint=run id)
RaceBegin(i) ==
    /\ inv[i].pc = "idle"
    /\ BeginWith(i, NoneVal, SeededRunId, None)
    /\ args' = [args EXCEPT ![i] = CallArgs(NoneVal, SeededRunId, None)]

RaceNext ==
    \/ RaceBegin(1)
    \/ RaceBegin(2)
    \/ ConcNodeReturn(1)
    \/ ConcNodeReturn(2)

RaceSpec == RaceInit /\ [][RaceNext]_vars

----------------------------------------------------------------------------
(* C38: when two invocations resume the same waiting run and each loads    *)
(* the pause checkpoint before the other has saved a new one, neither is   *)
(* refused: both call the paused node's successor with the stashed input,  *)
(* each goes on with the state, calls, events and result it has when it    *)
(* resumes the run alone, and the checkpoints and events of both are       *)
(* appended under the one run id.                                          *)

\* both tasks called run() while the run had its pause checkpoint only
C38_Case ==
    /\ \A i \in InvSlots :
           /\ inv[i].pc # "idle"
           /\ args[i].resume_from_checkpoint = SeededRunId
           /\ Len(CheckpointsOf(args[i].db, SeededRunId)) = 1

C38_Own(i) ==
    LET s == Alone(args[i])
    IN  /\ inv[i].pc = s.l.pc
        /\ inv[i].rid = s.l.rid
        /\ inv[i].result = s.l.result
        /\ inv[i].state = s.l.state
        /\ inv[i].calls = s.l.calls
        /\ inv[i].emitted = s.l.emitted

\* the rows task i appends to the checkpoints table when it runs alone
C38_Saved(i) ==
    Len(CheckpointsOf(Alone(args[i]).db, SeededRunId)) - 1

C38_NoExclusion ==
    C38_Case =>
        LET cp == LoadLatestCheckpoint(args[1].db, SeededRunId)
            G == cp.node
            succ == NextNode(graph, G)
            pending == ModelValidateJson(cp.state_json).context[PendingKey(G)]
        IN  /\ \A i \in InvSlots :
                   /\ inv[i].resumed
                   /\ inv[i].rid = SeededRunId
                   /\ inv[i].loaded = cp
                   /\ C38_Own(i)
                   /\ inv[i].emitted[1] = Event("run_started", SeededRunId, None)
                   /\ (succ # None /\
                       ValidateToModel(graph.nodes[succ].input_model, pending).ok) =>
                          /\ Len(inv[i].calls) >= 1
                          /\ inv[i].calls[1].node = succ
                          /\ ModelDump(inv[i].calls[1].input).val = pending.val
            /\ Len(CheckpointsOf(db, SeededRunId)) = 1 + C38_Saved(1) + C38_Saved(2)
            /\ Len(GetEvents(db, SeededRunId)) =
                   Len(inv[1].emitted) + Len(inv[2].emitted)
            /\ Len(db.checkpoints) = Len(CheckpointsOf(db, SeededRunId))
            /\ Len(db.events) = Len(GetEvents(db, SeededRunId))

\* both resumes completed the paused node's successor and each saved a
\* checkpoint of it
C38_Witness ==
    /\ C38_Case
    /\ inv[1].pc = "done" /\ inv[2].pc = "done"
    /\ Len(inv[1].calls) >= 1 /\ Len(inv[2].calls) >= 1
    /\ inv[1].calls[1].outcome = "ok" /\ inv[2].calls[1].outcome = "ok"
    /\ \E j, k \in 1..Len(db.checkpoints) :
           /\ j < k
           /\ db.checkpoints[j].node = inv[1].calls[1].node
           /\ db.checkpoints[k].node = inv[1].calls[1].node

\* the two states differ: each task wrote its node's output on its own copy
C38_CopiesReached ==
    /\ C38_Case
    /\ inv[1].pc = "done" /\ inv[2].pc = "in_node"
    /\ inv[1].calls[1].outcome = "ok"
    /\ inv[1].calls[1].node \in DOMAIN inv[1].state.node_outputs
    /\ inv[2].calls[1].node \notin DOMAIN inv[2].state.node_outputs

----------------------------------------------------------------------------
(* A runner on a backend one of whose methods starts to raise: create_run, *)
(* load_latest_checkpoint, save_checkpoint or update_run_status.  None of  *)
(* the four calls is inside a try of run().                                *)

FaultInit ==
    /\ graph \in {LinearGraph, GateGraph, BranchGraph}
    /\ hasPersistence = TRUE
    /\ db = EmptyDb
    /\ heard = <<>>
    /\ trace = <<>>
    /\ handlers = <<Handler("records", 0)>>
    /\ addEventRaises = FALSE
    /\ bgraph = EmptyGraph
    /\ bresult = NoCall
    /\ inv = [i \in InvSlots |-> IdleLocals]
    /\ invCount = 0
    /\ uuidCount = 0
    /\ args = [i \in InvSlots |-> NoArgs]

\* run(graph, initial_input) and then run(graph, initial_input,
\* resume_from_checkpoint=...) of a run the backend holds
FaultBegin ==
    /\ invCount <= 1
    /\ \E initial_input \in ConcInputs,
          resume_from_checkpoint \in {None} \cup DOMAIN db.runs :
         /\ invCount = 0 => resume_from_checkpoint = None
         /\ BeginWith(1, initial_input, resume_from_checkpoint, None)
         /\ args' = [args EXCEPT ![1] =
                        CallArgs(initial_input, resume_from_checkpoint, None)]

\* from now on the backend's method op raises
BackendBreaks ==
    /\ db.raises = None
    /\ \E op \in {"create_run", "load_latest_checkpoint", "save_checkpoint",
                  "update_run_status"} :
         db' = [db EXCEPT !.raises = op]
    /\ trace' = <<>>
    /\ UNCHANGED <<graph, hasPersistence, heard, handlers, addEventRaises,
                   bgraph, bresult, inv, invCount, uuidCount, args>>

FaultNext ==
    \/ FaultBegin
    \/ NodeReturn(1)
    \/ BackendBreaks

FaultSpec == FaultInit /\ [][FaultNext]_vars

----------------------------------------------------------------------------
(* C39: an exception of the backend in create_run, load_latest_checkpoint, *)
(* save_checkpoint or update_run_status ends the invocation with that      *)
(* exception.  When create_run or load_latest_checkpoint raises, nothing   *)
(* is emitted or written.  When save_checkpoint raises after a node        *)
(* completed, node_finished was emitted for the node and is the last       *)
(* event, no checkpoint was added, the status is running and no further    *)
(* node is called.  When update_run_status raises, run() returns no        *)
(* result and the status is as it was.                                     *)

\* the latest call of run() was made while the backend's method op raised
C39_CalledWith(op) ==
    /\ inv[1].pc # "idle"
    /\ args[1].db.raises = op
    /\ GraphValidate(graph) = "ok"

\* the latest step was a step of run() made while the method op raised
C39_StepWith(op) ==
    /\ db.raises = op
    /\ trace # <<>>
    /\ HasCalls

C39_Untouched ==
    /\ Done
    /\ L.result.kind = "raised"
    /\ Emitted = <<>>
    /\ L.calls = <<>>
    /\ trace = <<>>
    /\ db = args[1].db
    /\ Len(heard) = args[1].heard

C39_CreateRun ==
    (C39_CalledWith("create_run") /\ args[1].resume_from_checkpoint = None) =>
        /\ C39_Untouched
        /\ L.result.error = BackendError("create_run")

C39_Load ==
    (C39_CalledWith("load_latest_checkpoint")
         /\ args[1].resume_from_checkpoint # None) =>
        /\ C39_Untouched
        /\ L.result.error = BackendError("load_latest_checkpoint")

C39_Save ==
    (C39_StepWith("save_checkpoint") /\ LastCall.outcome \in {"ok", "pause"}) =>
        LET n == LastCall.node
            last == IF LastCall.outcome = "ok"
                    THEN "node_finished" ELSE "human_gate_pending"
        IN  /\ Done
            /\ L.result.kind = "raised"
            /\ L.result.error = BackendError("save_checkpoint")
            /\ trace = <<Call("add_event", last, n), Call("handler", 1, last)>>
            /\ Emitted[Len(Emitted)] = Event(last, L.rid, n)
            /\ StatusOf(db, L.rid) = "running"
            /\ L.cur = n

C39_Update ==
    /\ (C39_StepWith("update_run_status") /\ Done) =>
           /\ L.result.kind = "raised"
           /\ \A j \in 1..Len(trace) : trace[j].op # "update_run_status"
           /\ StatusOf(db, L.rid) = "running"
           /\ LastCall.outcome \in {"ok", "pause", "raise"} =>
                  L.result.error = BackendError("update_run_status")
           /\ LastCall.outcome = "pause" =>
                  trace[Len(trace)] = Call("save_checkpoint", L.rid, LastCall.node)
    /\ (C39_CalledWith("update_run_status")
            /\ args[1].resume_from_checkpoint # None
            /\ CheckpointsOf(args[1].db, args[1].resume_from_checkpoint) # <<>>) =>
           /\ C39_Untouched
           /\ L.result.error = BackendError("update_run_status")

C39_BackendErrorsPropagate ==
    C39_CreateRun /\ C39_Load /\ C39_Save /\ C39_Update

\* save_checkpoint raised after the second node of a run completed
C39_Witness ==
    /\ C39_StepWith("save_checkpoint")
    /\ LastCall.outcome = "ok"
    /\ Len(L.calls) = 2
    /\ L.result.error = BackendError("save_checkpoint")

\* update_run_status raised at the end of a run, at a resume, and create_run
\* and load_latest_checkpoint at a call
C39_FinishReached ==
    /\ C39_StepWith("update_run_status") /\ Done
    /\ Emitted[Len(Emitted)].type = "run_finished"
C39_ResumeReached ==
    /\ C39_CalledWith("update_run_status")
    /\ args[1].resume_from_checkpoint # None
    /\ CheckpointsOf(args[1].db, args[1].resume_from_checkpoint) # <<>>
C39_CreateReached ==
    C39_CalledWith("create_run") /\ args[1].resume_from_checkpoint = None
C39_LoadReached ==
    /\ C39_CalledWith("load_latest_checkpoint")
    /\ args[1].resume_from_checkpoint # None
    /\ CheckpointsOf(args[1].db, args[1].resume_from_checkpoint) # <<>>

====
